---- MODULE Spec2Model ----
(***************************************************************************)
(* Node-side volume lifecycle of the vSphere CSI driver                    *)
(* (pkg/csi/service/node.go): NodeStageVolume, NodePublishVolume,          *)
(* NodeUnpublishVolume, NodeUnstageVolume and the helpers they call, over  *)
(* a host made of a mount table, a file system,                            *)
(* the /dev/disk/by-id directory and the device nodes under /dev.          *)
(*                                                                         *)
(* Every gRPC handler runs to completion in one step.  The host changes    *)
(* between two handler calls through the Host* / CO* actions.              *)
(***************************************************************************)
EXTENDS Integers, Sequences, FiniteSets, TLC

----------------------------------------------------------------------------
(* Program constants                                                       *)

devDiskID == "/dev/disk/by-id"

blockPrefix == "wwn-0x"

(* common.AttributeFirstClassDiskUUID and common.Nfsv4AccessPoint: the     *)
(* publish-context keys.  A context is a record over both keys; the value  *)
(* Absent stands for "key not in the map" (the !ok result of a lookup).    *)
Absent == "<absent>"

----------------------------------------------------------------------------
(* Bounds of the model                                                     *)

MaxMounts == 3

(* how many times the CO issues one call before it takes the response *)
MaxAttempts == 2

----------------------------------------------------------------------------
(* The universe the requests and the host are drawn from                   *)

DiskIDs == {"6000c29a"}

(* the device node the by-id entry of a disk links to *)
RealDevOf(id) == IF id = "6000c29b" THEN "/dev/sdc" ELSE "/dev/sdb"

StagingPaths == {"/csi/pv/1/globalmount"}

TargetPaths == {"/pods/a/mount"}

(* a directory outside the driver's paths, where the host may mount a disk *)
OtherPath == "/mnt/other"

Paths == StagingPaths \cup TargetPaths

(* a second publish target, of another workload *)
SecondTarget == "/pods/b/mount"

(* every path the file system is tracked at *)
AllPaths == Paths \cup {SecondTarget, "/csi/pv/2/globalmount"}

(* the device of the root file system, which holds every unmounted path *)
RootDev == "/dev/sda1"

NfsEndpoint == "vsanfs:/share1"

FlagSets == {<<>>, <<"ro">>}

Codes == {"OK", "InvalidArgument", "FailedPrecondition", "NotFound", "AlreadyExists", "Internal"}

NoCtx == [diskUUID |-> Absent, nfs |-> Absent]

DiskCtxs == {NoCtx} \cup {[diskUUID |-> id, nfs |-> Absent] : id \in DiskIDs}

FileCtxs == {NoCtx, [diskUUID |-> Absent, nfs |-> NfsEndpoint]}

(* A request: the capability (kind, mount flags), the access mode's        *)
(* read-only bit (Stage) or the readonly field (Publish), the paths and    *)
(* the publish context.  A block capability carries no mount flags.  guest *)
(* is the cluster flavor the process runs with (read from the environment  *)
(* by the file-share publish).                                             *)
ReqsTo(targets) ==
    [kind : {"mount"}, flags : FlagSets, ro : BOOLEAN, guest : {FALSE},
     staging : StagingPaths \cup {""}, target : targets, pubCtx : DiskCtxs]
    \cup
    [kind : {"block"}, flags : {<<>>}, ro : BOOLEAN, guest : {FALSE},
     staging : StagingPaths \cup {""}, target : targets, pubCtx : DiskCtxs]
    \cup
    [kind : {"file"}, flags : FlagSets, ro : BOOLEAN, guest : BOOLEAN,
     staging : StagingPaths \cup {""}, target : targets, pubCtx : FileCtxs]

(* Stage requests have no target path *)
StageReqs == ReqsTo({""})

PublishReqs == ReqsTo(TargetPaths)

NoReq ==
    [kind |-> "none", flags |-> <<>>, ro |-> FALSE, guest |-> FALSE, staging |-> "", target |-> "",
     pubCtx |-> NoCtx]

(* Unpublish requests carry the target path only, Unstage requests the     *)
(* staging path only                                                       *)
UnpublishReqs == {[NoReq EXCEPT !.target = t] : t \in TargetPaths}

UnstageReqs == {[NoReq EXCEPT !.staging = p] : p \in StagingPaths}

----------------------------------------------------------------------------
(* State                                                                   *)

VARIABLES
    mounts,     \* the host mount table, in table order: gofsutil.Info records
    files,      \* what exists at each path: "none", "dir" or "file"
    byId,       \* the entry names present in /dev/disk/by-id
    blockDevs,  \* the device nodes present under /dev
    devfs,      \* the token the host reports for bind-mounted device nodes
    last        \* the call whose response the CO has not taken yet: the request,
                \* the status code, the host commands run, the number of the
                \* attempt, the code and commands of the attempt before it, and
                \* the mount table and files the call started from; Idle
                \* between calls

VARIABLES
    devSize,    \* the size in bytes the kernel reports for the volume's device
    diskSize,   \* the size in bytes of the disk behind the device
    fsSize      \* the size in bytes of the filesystem on the device

VARIABLES
    objects,    \* the CnsVolumeOperationRequest instances on the API server
    inflight,   \* per caller, the StoreRequestDetails call it is in
    hist        \* what has been stored so far: the TaskIDs used, the number
                \* of stores that repeated a TaskID, and per name the request
                \* of the latest successful store and the TaskIDs in the
                \* order of their first successful store

VARIABLES
    environ     \* the environment the node service was started in: the
                \* variables NodeGetInfo reads, the cluster flavor, and what
                \* the configuration file and vCenter answer

VARIABLES
    running     \* per volume, the call in flight on it when calls on two
                \* volumes run side by side: its position, the request, what
                \* it has read from the mount table, and its status code

nodeVars == <<mounts, files, byId, blockDevs, devfs>>

sizeVars == <<devSize, diskSize, fsSize>>

ledgerVars == <<objects, inflight, hist>>

vars == <<mounts, files, byId, blockDevs, devfs, last, devSize, diskSize, fsSize,
          objects, inflight, hist, environ, running>>

hostVars == <<byId, blockDevs, devfs>>

----------------------------------------------------------------------------
(* Helpers of node.go                                                      *)

contains(list, item) == \E i \in 1..Len(list) : list[i] = item

(* getDiskPath matching an entry by the disk id it ends with, whatever its *)
(* prefix                                                                  *)
getDiskPath_anyPrefix(id) ==
    IF \E n \in byId : n = blockPrefix \o id \/ n = "scsi-3" \o id
    THEN devDiskID \o "/" \o blockPrefix \o id
    ELSE ""

(* getDiskPath: the path of the by-id entry named blockPrefix + id, or ""  *)
getDiskPath(id) ==
    LET targetDisk == blockPrefix \o id
    IN  IF targetDisk \in byId THEN devDiskID \o "/" \o targetDisk ELSE ""

(* verifyVolumeAttached: [code, volPath] *)
verifyVolumeAttached(diskID) ==
    LET volPath == getDiskPath(diskID)
    IN  IF volPath = ""
        THEN [code |-> "NotFound", volPath |-> ""]
        ELSE [code |-> "OK", volPath |-> volPath]

(* filepath.EvalSymlinks on a by-id entry path; a path that is not a by-id  *)
(* link of the universe resolves to itself                                 *)
EvalSymlinks(path) ==
    IF \E id \in DiskIDs \cup {"6000c29b"} : path = devDiskID \o "/" \o blockPrefix \o id
    THEN RealDevOf(CHOOSE id \in DiskIDs \cup {"6000c29b"} :
                       path = devDiskID \o "/" \o blockPrefix \o id)
    ELSE path

(* getDevice: [ok, FullPath, RealDev]; fails when the path is missing or   *)
(* what it resolves to is not a device node                                *)
getDevice(path) ==
    LET d == EvalSymlinks(path)
        exists == \/ \E n \in byId : path = devDiskID \o "/" \o n
                  \/ path \in blockDevs
    IN  IF exists /\ d \in blockDevs
        THEN [ok |-> TRUE, FullPath |-> path, RealDev |-> d]
        ELSE [ok |-> FALSE, FullPath |-> path, RealDev |-> ""]

(* getDiskID: [code, diskID] *)
getDiskID(pubCtx) ==
    IF pubCtx.diskUUID = Absent
    THEN [code |-> "InvalidArgument", diskID |-> ""]
    ELSE [code |-> "OK", diskID |-> pubCtx.diskUUID]

(* verifyTargetDir without the IsDir check *)
verifyTargetDir_noDirCheck(target, targetShouldExist) ==
    IF target = ""
    THEN [code |-> "InvalidArgument", exists |-> FALSE]
    ELSE IF files[target] = "none"
    THEN IF targetShouldExist
         THEN [code |-> "FailedPrecondition", exists |-> FALSE]
         ELSE [code |-> "OK", exists |-> FALSE]
    ELSE [code |-> "OK", exists |-> TRUE]

(* verifyTargetDir: [code, exists] *)
verifyTargetDir(target, targetShouldExist) ==
    IF target = ""
    THEN [code |-> "InvalidArgument", exists |-> FALSE]
    ELSE IF files[target] = "none"
    THEN IF targetShouldExist
         THEN [code |-> "FailedPrecondition", exists |-> FALSE]
         ELSE [code |-> "OK", exists |-> FALSE]
    ELSE IF files[target] # "dir"
    THEN [code |-> "FailedPrecondition", exists |-> FALSE]
    ELSE [code |-> "OK", exists |-> TRUE]

(* ensureMountVol: the capability must carry a mount access type; mount    *)
(* and file-share capabilities do, the block capability does not           *)
ensureMountVol(req) ==
    IF req.kind = "block"
    THEN [code |-> "InvalidArgument", fsType |-> "", mntFlags |-> <<>>]
    ELSE [code |-> "OK",
          fsType |-> IF req.kind = "file" THEN "nfs4" ELSE "ext4",
          mntFlags |-> req.flags]

(* common.IsFileVolumeRequest *)
IsFileVolumeRequest(req) == req.kind = "file"

(* common.IsVolumeReadOnly *)
IsVolumeReadOnly(req) == req.ro

----------------------------------------------------------------------------
(* The host side of gofsutil                                               *)

(* the options the kernel reports for a mount made with the given flags:   *)
(* the access option first, then the other flags                           *)
KernelOpts(flags) ==
    LET other(f) == f \notin {"ro", "rw"}
    IN  <<IF contains(flags, "ro") THEN "ro" ELSE "rw">> \o SelectSeq(flags, other)

(* GetDevMounts were it to return every record, whatever its device *)
GetDevMounts_anyDevice(dev) == mounts

(* gofsutil.GetDevMounts: the mount records whose device token is dev *)
GetDevMounts(dev) ==
    LET onDev(m) == m.Device = dev
    IN  SelectSeq(mounts, onDev)

(* the record gofsutil.Mount / FormatAndMount adds: mount(8) resolves the  *)
(* source to the device node                                               *)
MountRecord(source, target, fsType, flags) ==
    [Device |-> EvalSymlinks(source), Path |-> target,
     Source |-> EvalSymlinks(source), Type |-> fsType, Opts |-> KernelOpts(flags)]

(* a host command (a gofsutil function, or os.Remove), as the handler ran  *)
(* it                                                                      *)
Call(cmd, source, target, fsType, flags) ==
    [cmd |-> cmd, source |-> source, target |-> target, fsType |-> fsType, flags |-> flags]

(* the outcome of a handler: the status code, the host state it leaves and *)
(* the host commands it ran                                                *)
Out(code, mnts, fls, calls) ==
    [code |-> code, mounts |-> mnts, files |-> fls, calls |-> calls]

Fail(code) == Out(code, mounts, files, <<>>)

----------------------------------------------------------------------------
(* NodeStageVolume                                                         *)

(* stageFreshDevice formatting whatever the access mode *)
stageFreshDevice_alwaysFormat(dev, params, osOk) ==
    LET call == Call("FormatAndMount", dev.FullPath, params.stagingTarget,
                     params.fsType, params.mntFlags)
    IN  IF osOk
        THEN Out("OK",
                 Append(mounts, MountRecord(dev.FullPath, params.stagingTarget,
                                            params.fsType, params.mntFlags)),
                 files, <<call>>)
        ELSE Out("Internal", mounts, files, <<call>>)

(* nodeStageBlockVolume, the branch of a device that is mounted nowhere:   *)
(* a read-only request mounts with "ro" appended and never formats, any    *)
(* other request formats and mounts                                        *)
stageFreshDevice(dev, params, osOk) ==
    IF params.ro
    THEN LET flags == Append(params.mntFlags, "ro")
             call == Call("Mount", dev.FullPath, params.stagingTarget, params.fsType, flags)
         IN  IF osOk
             THEN Out("OK",
                      Append(mounts, MountRecord(dev.FullPath, params.stagingTarget,
                                                 params.fsType, flags)),
                      files, <<call>>)
             ELSE Out("Internal", mounts, files, <<call>>)
    ELSE LET call == Call("FormatAndMount", dev.FullPath, params.stagingTarget,
                          params.fsType, params.mntFlags)
         IN  IF osOk
             THEN Out("OK",
                      Append(mounts, MountRecord(dev.FullPath, params.stagingTarget,
                                                 params.fsType, params.mntFlags)),
                      files, <<call>>)
             ELSE Out("Internal", mounts, files, <<call>>)

(* stageMountedDevice accepting any mount at the staging target, whatever  *)
(* its options                                                             *)
stageMountedDevice_noOptCheck(dev, mnts, params, osOk) ==
    LET atTarget(m) == m.Path = params.stagingTarget
    IN  IF Len(SelectSeq(mnts, atTarget)) = 0 THEN Fail("Internal") ELSE Fail("OK")

(* stageMountedDevice staging the device when its mounts are elsewhere *)
stageMountedDevice_mountsAnyway(dev, mnts, params, osOk) ==
    LET atTarget(m) == m.Path = params.stagingTarget
        hits == SelectSeq(mnts, atTarget)
        rwo == IF params.ro THEN "ro" ELSE "rw"
    IN  IF Len(hits) = 0
        THEN stageFreshDevice(dev, params, osOk)
        ELSE IF contains(hits[1].Opts, rwo)
        THEN Fail("OK")
        ELSE Fail("AlreadyExists")

(* nodeStageBlockVolume, the branch of a device that is mounted already:   *)
(* the first of its mounts at the staging target decides                   *)
stageMountedDevice(dev, mnts, params, osOk) ==
    LET atTarget(m) == m.Path = params.stagingTarget
        hits == SelectSeq(mnts, atTarget)
        rwo == IF params.ro THEN "ro" ELSE "rw"
    IN  IF Len(hits) = 0
        THEN Fail("Internal")
        ELSE IF contains(hits[1].Opts, rwo)
        THEN Fail("OK")
        ELSE Fail("AlreadyExists")

(* nodeStageBlockVolume without the return for the block capability *)
nodeStageBlockVolume_noBlockReturn(req, params, osOk) ==
    LET d == getDiskID(req.pubCtx) IN
    IF d.code # "OK" THEN Fail(d.code) ELSE
    LET a == verifyVolumeAttached(d.diskID) IN
    IF a.code # "OK" THEN Fail(a.code) ELSE
    LET dev == getDevice(a.volPath) IN
    IF ~dev.ok THEN Fail("Internal") ELSE
    LET mnts == GetDevMounts(dev.RealDev) IN
    IF Len(mnts) = 0
    THEN stageFreshDevice(dev, params, osOk)
    ELSE stageMountedDevice(dev, mnts, params, osOk)

nodeStageBlockVolume(req, params, osOk) ==
    LET d == getDiskID(req.pubCtx) IN
    IF d.code # "OK" THEN Fail(d.code) ELSE
    LET a == verifyVolumeAttached(d.diskID) IN
    IF a.code # "OK" THEN Fail(a.code) ELSE
    LET dev == getDevice(a.volPath) IN
    IF ~dev.ok THEN Fail("Internal") ELSE
    IF req.kind = "block" THEN Fail("OK") ELSE
    LET mnts == GetDevMounts(dev.RealDev) IN
    IF Len(mnts) = 0
    THEN stageFreshDevice(dev, params, osOk)
    ELSE stageMountedDevice(dev, mnts, params, osOk)

(* NodeStageVolume without the early return for file-share volumes *)
NodeStageVolume_noFileReturn(req, osOk) ==
    nodeStageBlockVolume(req,
        [ro |-> IsVolumeReadOnly(req), fsType |-> "", mntFlags |-> <<>>, stagingTarget |-> ""],
        osOk)

NodeStageVolume(req, osOk) ==
    IF IsFileVolumeRequest(req) THEN Fail("OK") ELSE
    LET p0 == [ro |-> IsVolumeReadOnly(req), fsType |-> "", mntFlags |-> <<>>,
               stagingTarget |-> ""]
    IN  IF req.kind = "mount"
        THEN LET e == ensureMountVol(req) IN
             IF e.code # "OK" THEN Fail(e.code) ELSE
             LET v == verifyTargetDir(req.staging, TRUE) IN
             IF v.code # "OK" THEN Fail(v.code) ELSE
             nodeStageBlockVolume(req,
                 [p0 EXCEPT !.fsType = e.fsType, !.mntFlags = e.mntFlags,
                            !.stagingTarget = req.staging],
                 osOk)
        ELSE nodeStageBlockVolume(req, p0, osOk)

----------------------------------------------------------------------------
(* NodePublishVolume                                                       *)

(* mkdir: creates the directory if the path is free; [ok, files] *)
mkdir(path) ==
    IF files[path] = "none" THEN [ok |-> TRUE, files |-> [files EXCEPT ![path] = "dir"]]
    ELSE IF files[path] # "dir" THEN [ok |-> FALSE, files |-> files]
    ELSE [ok |-> TRUE, files |-> files]

(* mkfile: creates the file if the path is free; [ok, files] *)
mkfile(path) ==
    IF files[path] = "none" THEN [ok |-> TRUE, files |-> [files EXCEPT ![path] = "file"]]
    ELSE IF files[path] = "dir" THEN [ok |-> FALSE, files |-> files]
    ELSE [ok |-> TRUE, files |-> files]

(* getDevMounts: the records whose device token is the device, or whose    *)
(* token is devtmpfs and whose source is the device                        *)
getDevMounts(sysDevice) ==
    LET ofDev(m) == \/ m.Device = sysDevice.RealDev
                    \/ (m.Device = "devtmpfs" /\ m.Source = sysDevice.RealDev)
    IN  SelectSeq(mounts, ofDev)

(* the record gofsutil.BindMount adds.  A bind mount of a directory shows  *)
(* the device and type of the file system the directory is on (the mount   *)
(* on top of that path, or the root file system) and the directory as its  *)
(* source; a bind mount of a device node shows the devfs token and the     *)
(* device node as its source.                                              *)
BindRecord(source, target, flags) ==
    LET real == EvalSymlinks(source)
        atSource(m) == m.Path = source
        covering == SelectSeq(mounts, atSource)
    IN  IF real \in blockDevs
        THEN [Device |-> devfs, Path |-> target, Source |-> real,
              Type |-> "devtmpfs", Opts |-> KernelOpts(flags)]
        ELSE IF Len(covering) > 0
        THEN [Device |-> covering[Len(covering)].Device, Path |-> target, Source |-> source,
              Type |-> covering[Len(covering)].Type, Opts |-> KernelOpts(flags)]
        ELSE [Device |-> RootDev, Path |-> target, Source |-> source,
              Type |-> "ext4", Opts |-> KernelOpts(flags)]

(* publishMountVol bind-mounting whether or not the device is staged *)
publishMountVol_noStagedCheck(req, dev, params, osOk) ==
    LET e == ensureMountVol(req) IN
    IF e.code # "OK" THEN Fail(e.code) ELSE
    LET mk == mkdir(params.target) IN
    IF ~mk.ok THEN Fail("Internal") ELSE
    LET v == verifyTargetDir(params.stagingTarget, TRUE) IN
    IF v.code # "OK" THEN Out(v.code, mounts, mk.files, <<>>) ELSE
    LET devMnts == getDevMounts(dev)
        atTarget(m) == m.Path = params.target
        hits == SelectSeq(devMnts, atTarget)
        rwo == IF params.ro THEN "ro" ELSE "rw"
        mntFlags == IF params.ro THEN Append(e.mntFlags, "ro") ELSE e.mntFlags
        call == Call("BindMount", params.stagingTarget, params.target, "", mntFlags)
    IN  IF Len(devMnts) > 1 /\ Len(hits) > 0
        THEN IF ~contains(hits[1].Opts, rwo)
             THEN Out("AlreadyExists", mounts, mk.files, <<>>)
             ELSE Out("OK", mounts, mk.files, <<>>)
        ELSE IF osOk
        THEN Out("OK", Append(mounts, BindRecord(params.stagingTarget, params.target, mntFlags)),
                 mk.files, <<call>>)
        ELSE Out("Internal", mounts, mk.files, <<call>>)

publishMountVol(req, dev, params, osOk) ==
    LET e == ensureMountVol(req) IN
    IF e.code # "OK" THEN Fail(e.code) ELSE
    LET mk == mkdir(params.target) IN
    IF ~mk.ok THEN Fail("Internal") ELSE
    LET v == verifyTargetDir(params.stagingTarget, TRUE) IN
    IF v.code # "OK" THEN Out(v.code, mounts, mk.files, <<>>) ELSE
    LET devMnts == getDevMounts(dev)
        atTarget(m) == m.Path = params.target
        hits == SelectSeq(devMnts, atTarget)
        rwo == IF params.ro THEN "ro" ELSE "rw"
        mntFlags == IF params.ro THEN Append(e.mntFlags, "ro") ELSE e.mntFlags
        call == Call("BindMount", params.stagingTarget, params.target, "", mntFlags)
    IN  IF Len(devMnts) > 1 /\ Len(hits) > 0
        THEN IF ~contains(hits[1].Opts, rwo)
             THEN Out("AlreadyExists", mounts, mk.files, <<>>)
             ELSE Out("OK", mounts, mk.files, <<>>)
        ELSE IF Len(devMnts) = 0
        THEN Out("FailedPrecondition", mounts, mk.files, <<>>)
        ELSE IF osOk
        THEN Out("OK", Append(mounts, BindRecord(params.stagingTarget, params.target, mntFlags)),
                 mk.files, <<call>>)
        ELSE Out("Internal", mounts, mk.files, <<call>>)

(* publishBlockVol without the read-only check *)
publishBlockVol_noRoCheck(req, dev, params, osOk) ==
    LET mk == mkfile(params.target) IN
    IF ~mk.ok THEN Fail("Internal") ELSE
    LET devMnts == getDevMounts(dev)
        call == Call("BindMount", dev.FullPath, params.target, "", <<>>)
    IN  IF Len(devMnts) = 0
        THEN IF osOk
             THEN Out("OK", Append(mounts, BindRecord(dev.FullPath, params.target, <<>>)),
                      mk.files, <<call>>)
             ELSE Out("Internal", mounts, mk.files, <<call>>)
        ELSE IF Len(devMnts) = 1
        THEN IF devMnts[1].Path # params.target
             THEN Out("Internal", mounts, mk.files, <<>>)
             ELSE Out("OK", mounts, mk.files, <<>>)
        ELSE Out("AlreadyExists", mounts, mk.files, <<>>)

(* publishBlockVol looking at the first mount only, however many mounts    *)
(* the device has                                                          *)
publishBlockVol_firstMountOnly(req, dev, params, osOk) ==
    LET mk == mkfile(params.target) IN
    IF ~mk.ok THEN Fail("Internal") ELSE
    IF params.ro THEN Out("InvalidArgument", mounts, mk.files, <<>>) ELSE
    LET devMnts == getDevMounts(dev)
        call == Call("BindMount", dev.FullPath, params.target, "", <<>>)
    IN  IF Len(devMnts) = 0
        THEN IF osOk
             THEN Out("OK", Append(mounts, BindRecord(dev.FullPath, params.target, <<>>)),
                      mk.files, <<call>>)
             ELSE Out("Internal", mounts, mk.files, <<call>>)
        ELSE IF devMnts[1].Path # params.target
        THEN Out("Internal", mounts, mk.files, <<>>)
        ELSE Out("OK", mounts, mk.files, <<>>)

publishBlockVol(req, dev, params, osOk) ==
    LET mk == mkfile(params.target) IN
    IF ~mk.ok THEN Fail("Internal") ELSE
    IF params.ro THEN Out("InvalidArgument", mounts, mk.files, <<>>) ELSE
    LET devMnts == getDevMounts(dev)
        call == Call("BindMount", dev.FullPath, params.target, "", <<>>)
    IN  IF Len(devMnts) = 0
        THEN IF osOk
             THEN Out("OK", Append(mounts, BindRecord(dev.FullPath, params.target, <<>>)),
                      mk.files, <<call>>)
             ELSE Out("Internal", mounts, mk.files, <<call>>)
        ELSE IF Len(devMnts) = 1
        THEN IF devMnts[1].Path # params.target
             THEN Out("Internal", mounts, mk.files, <<>>)
             ELSE Out("OK", mounts, mk.files, <<>>)
        ELSE Out("AlreadyExists", mounts, mk.files, <<>>)

(* publishFileVol reading the share endpoint before it looks at the mount *)
(* table                                                                   *)
publishFileVol_endpointFirst(req, params, osOk) ==
    LET e == ensureMountVol(req) IN
    IF e.code # "OK" THEN Fail(e.code) ELSE
    LET mk == mkdir(params.target) IN
    IF ~mk.ok THEN Fail("Internal") ELSE
    LET atTarget(m) == m.Path = params.target
        hits == SelectSeq(mounts, atTarget)
        rwo == IF params.ro THEN "ro" ELSE "rw"
        f1 == IF params.ro THEN Append(e.mntFlags, "ro") ELSE e.mntFlags
        mntFlags == IF req.guest THEN Append(f1, "hard") ELSE f1
        mntSrc == req.pubCtx.nfs
        call == Call("Mount", mntSrc, params.target, e.fsType, mntFlags)
    IN  IF mntSrc = Absent
        THEN Out("Internal", mounts, mk.files, <<>>)
        ELSE IF Len(hits) > 0
        THEN IF ~contains(hits[1].Opts, rwo)
             THEN Out("AlreadyExists", mounts, mk.files, <<>>)
             ELSE Out("OK", mounts, mk.files, <<>>)
        ELSE IF osOk
        THEN Out("OK", Append(mounts, MountRecord(mntSrc, params.target, e.fsType, mntFlags)),
                 mk.files, <<call>>)
        ELSE Out("Internal", mounts, mk.files, <<call>>)

publishFileVol(req, params, osOk) ==
    LET e == ensureMountVol(req) IN
    IF e.code # "OK" THEN Fail(e.code) ELSE
    LET mk == mkdir(params.target) IN
    IF ~mk.ok THEN Fail("Internal") ELSE
    LET atTarget(m) == m.Path = params.target
        hits == SelectSeq(mounts, atTarget)
        rwo == IF params.ro THEN "ro" ELSE "rw"
        f1 == IF params.ro THEN Append(e.mntFlags, "ro") ELSE e.mntFlags
        mntFlags == IF req.guest THEN Append(f1, "hard") ELSE f1
        mntSrc == req.pubCtx.nfs
        call == Call("Mount", mntSrc, params.target, e.fsType, mntFlags)
    IN  IF Len(hits) > 0
        THEN IF ~contains(hits[1].Opts, rwo)
             THEN Out("AlreadyExists", mounts, mk.files, <<>>)
             ELSE Out("OK", mounts, mk.files, <<>>)
        ELSE IF mntSrc = Absent
        THEN Out("Internal", mounts, mk.files, <<>>)
        ELSE IF osOk
        THEN Out("OK", Append(mounts, MountRecord(mntSrc, params.target, e.fsType, mntFlags)),
                 mk.files, <<call>>)
        ELSE Out("Internal", mounts, mk.files, <<call>>)

NodePublishVolume(req, osOk) ==
    LET p0 == [target |-> req.target, ro |-> req.ro, stagingTarget |-> req.staging] IN
    IF p0.stagingTarget = "" THEN Fail("FailedPrecondition") ELSE
    IF ~IsFileVolumeRequest(req)
    THEN LET d == getDiskID(req.pubCtx) IN
         IF d.code # "OK" THEN Fail(d.code) ELSE
         LET a == verifyVolumeAttached(d.diskID) IN
         IF a.code # "OK" THEN Fail(a.code) ELSE
         LET dev == getDevice(a.volPath) IN
         IF ~dev.ok THEN Fail("Internal") ELSE
         IF req.kind = "block"
         THEN publishBlockVol(req, dev, p0, osOk)
         ELSE publishMountVol(req, dev, p0, osOk)
    ELSE publishFileVol(req, p0, osOk)

----------------------------------------------------------------------------
(* NodeUnpublishVolume and NodeUnstageVolume                               *)

(* os.Stat on a path: what is there, "none" for a path that does not exist *)
Stat(fls, path) == IF path \in DOMAIN fls THEN fls[path] ELSE "none"

(* common.IsTargetInMounts: some record of the table has the path *)
IsTargetInMounts(target, mnts) == \E i \in 1..Len(mnts) : mnts[i].Path = target

(* common.IsFileVolumeMount: the first record at the path is an nfs mount *)
IsFileVolumeMount(target, mnts) ==
    LET atTarget(m) == m.Path = target
        hits == SelectSeq(mnts, atTarget)
    IN  Len(hits) > 0 /\ hits[1].Type \in {"nfs", "nfs4"}

(* gofsutil.Unmount: umount(8) detaches the mount on top of the path, the  *)
(* last record of the table at that path                                   *)
Unmount(mnts, target) ==
    LET at == {i \in 1..Len(mnts) : mnts[i].Path = target}
        top == CHOOSE i \in at : \A j \in at : j <= i
    IN  IF at = {} THEN mnts
        ELSE SubSeq(mnts, 1, top - 1) \o SubSeq(mnts, top + 1, Len(mnts))

(* rmpath: os.Remove of the path; [ok, files].  The removal fails on a     *)
(* path that is still a mount point, and when the host refuses it (a       *)
(* directory that is not empty): rmOk = FALSE                              *)
rmpath(mnts, fls, target, rmOk) ==
    IF Stat(fls, target) = "none" \/ IsTargetInMounts(target, mnts) \/ ~rmOk
    THEN [ok |-> FALSE, files |-> fls]
    ELSE [ok |-> TRUE, files |-> [fls EXCEPT ![target] = "none"]]

(* getDevFromMount: [found, ok, dev].  The first record at the target      *)
(* names the device, by its source when its token is udev or devtmpfs;     *)
(* found = FALSE is the nil result                                         *)
getDevFromMount(target) ==
    LET atTarget(m) == m.Path = target
        hits == SelectSeq(mounts, atTarget)
        d == IF hits[1].Device = "udev" \/ hits[1].Device = "devtmpfs"
             THEN hits[1].Source ELSE hits[1].Device
    IN  IF Len(hits) = 0
        THEN [found |-> FALSE, ok |-> TRUE, dev |-> getDevice("")]
        ELSE [found |-> TRUE, ok |-> getDevice(d).ok, dev |-> getDevice(d)]

(* isBlockVolumePublished removing nothing when no device is found *)
isBlockVolumePublished_noCleanup(target, rmOk) ==
    LET dm == getDevFromMount(target) IN
    IF ~dm.ok THEN [code |-> "Internal", published |-> FALSE, files |-> files, calls |-> <<>>]
    ELSE IF ~dm.found
    THEN [code |-> "OK", published |-> FALSE, files |-> files, calls |-> <<>>]
    ELSE [code |-> "OK", published |-> TRUE, files |-> files, calls |-> <<>>]

(* isBlockVolumePublished: [code, published, files, calls] *)
isBlockVolumePublished(target, rmOk) ==
    LET dm == getDevFromMount(target) IN
    IF ~dm.ok THEN [code |-> "Internal", published |-> FALSE, files |-> files, calls |-> <<>>]
    ELSE IF ~dm.found
    THEN LET rm == rmpath(mounts, files, target, rmOk)
             call == Call("Remove", "", target, "", <<>>)
         IN  IF ~rm.ok
             THEN [code |-> "Internal", published |-> FALSE, files |-> files, calls |-> <<call>>]
             ELSE [code |-> "OK", published |-> FALSE, files |-> rm.files, calls |-> <<call>>]
    ELSE [code |-> "OK", published |-> TRUE, files |-> files, calls |-> <<>>]

(* unpublishMounted answering success whether or not the path was removed *)
unpublishMounted_ignoresRemoveError(target, osOk, rmOk) ==
    LET um == Call("Unmount", "", target, "", <<>>)
        rmc == Call("Remove", "", target, "", <<>>)
        after == Unmount(mounts, target)
        rm == rmpath(after, files, target, rmOk)
    IN  IF ~osOk THEN Out("Internal", mounts, files, <<um>>)
        ELSE Out("OK", after, rm.files, <<um, rmc>>)

(* unpublishMounted leaving the target path where it is *)
unpublishMounted_keepsTarget(target, osOk, rmOk) ==
    LET um == Call("Unmount", "", target, "", <<>>)
        after == Unmount(mounts, target)
    IN  IF ~osOk THEN Out("Internal", mounts, files, <<um>>)
        ELSE Out("OK", after, files, <<um>>)

(* unpublishMounted unmounting the device behind the target everywhere *)
unpublishMounted_unmountsDevice(target, osOk, rmOk) ==
    LET um == Call("Unmount", "", target, "", <<>>)
        rmc == Call("Remove", "", target, "", <<>>)
        atTarget(m) == m.Path = target
        hits == SelectSeq(mounts, atTarget)
        otherDevice(m) == m.Device # hits[1].Device
        after == IF Len(hits) = 0 THEN mounts ELSE SelectSeq(mounts, otherDevice)
        rm == rmpath(after, files, target, rmOk)
    IN  IF ~osOk THEN Out("Internal", mounts, files, <<um>>)
        ELSE IF ~rm.ok THEN Out("Internal", after, files, <<um, rmc>>)
        ELSE Out("OK", after, rm.files, <<um, rmc>>)

(* the end of NodeUnpublishVolume for a published target: unmount, then    *)
(* remove the path                                                         *)
unpublishMounted(target, osOk, rmOk) ==
    LET um == Call("Unmount", "", target, "", <<>>)
        rmc == Call("Remove", "", target, "", <<>>)
        after == Unmount(mounts, target)
        rm == rmpath(after, files, target, rmOk)
    IN  IF ~osOk THEN Out("Internal", mounts, files, <<um>>)
        ELSE IF ~rm.ok THEN Out("Internal", after, files, <<um, rmc>>)
        ELSE Out("OK", after, rm.files, <<um, rmc>>)

(* NodeUnpublishVolume answering NotFound for a target that does not exist *)
NodeUnpublishVolume_missingTargetFails(req, osOk, rmOk) ==
    LET target == req.target IN
    IF Stat(files, target) = "none" THEN Fail("NotFound") ELSE
    IF ~IsTargetInMounts(target, mounts) THEN Fail("OK") ELSE
    IF IsFileVolumeMount(target, mounts)
    THEN unpublishMounted(target, osOk, rmOk)
    ELSE LET p == isBlockVolumePublished(target, rmOk) IN
         IF p.code # "OK" THEN Out(p.code, mounts, p.files, p.calls)
         ELSE IF p.published THEN unpublishMounted(target, osOk, rmOk)
         ELSE Out("OK", mounts, p.files, p.calls)

NodeUnpublishVolume(req, osOk, rmOk) ==
    LET target == req.target IN
    IF Stat(files, target) = "none" THEN Fail("OK") ELSE
    IF ~IsTargetInMounts(target, mounts) THEN Fail("OK") ELSE
    IF IsFileVolumeMount(target, mounts)
    THEN unpublishMounted(target, osOk, rmOk)
    ELSE LET p == isBlockVolumePublished(target, rmOk) IN
         IF p.code # "OK" THEN Out(p.code, mounts, p.files, p.calls)
         ELSE IF p.published THEN unpublishMounted(target, osOk, rmOk)
         ELSE Out("OK", mounts, p.files, p.calls)

(* isBlockVolumeMounted answering "not mounted" whatever is at the path *)
isBlockVolumeMounted_neverMounted(stagingTargetPath) ==
    LET dm == getDevFromMount(stagingTargetPath) IN
    IF ~dm.ok THEN [code |-> "Internal", mounted |-> FALSE]
    ELSE [code |-> "OK", mounted |-> FALSE]

(* isBlockVolumeMounted without the count of the device's mounts *)
isBlockVolumeMounted_noCountCheck(stagingTargetPath) ==
    LET dm == getDevFromMount(stagingTargetPath) IN
    IF ~dm.ok THEN [code |-> "Internal", mounted |-> FALSE]
    ELSE IF ~dm.found THEN [code |-> "OK", mounted |-> FALSE]
    ELSE [code |-> "OK", mounted |-> TRUE]

(* isBlockVolumeMounted: [code, mounted] *)
isBlockVolumeMounted(stagingTargetPath) ==
    LET dm == getDevFromMount(stagingTargetPath) IN
    IF ~dm.ok THEN [code |-> "Internal", mounted |-> FALSE]
    ELSE IF ~dm.found THEN [code |-> "OK", mounted |-> FALSE]
    ELSE IF Len(GetDevMounts(dm.dev.RealDev)) > 1 THEN [code |-> "Internal", mounted |-> FALSE]
    ELSE [code |-> "OK", mounted |-> TRUE]

(* NodeUnstageVolume requiring the staging directory before it reads the  *)
(* mount table                                                             *)
NodeUnstageVolume_requiresDir(req, osOk) ==
    LET stagingTarget == req.staging IN
    LET v == verifyTargetDir(stagingTarget, TRUE) IN
    IF v.code # "OK" THEN Fail(v.code) ELSE
    IF ~IsTargetInMounts(stagingTarget, mounts) THEN Fail("OK") ELSE
    LET m == isBlockVolumeMounted(stagingTarget) IN
    IF m.code # "OK" THEN Fail(m.code) ELSE
    IF m.mounted
    THEN LET um == Call("Unmount", "", stagingTarget, "", <<>>) IN
         IF osOk THEN Out("OK", Unmount(mounts, stagingTarget), files, <<um>>)
         ELSE Out("Internal", mounts, files, <<um>>)
    ELSE Fail("OK")

NodeUnstageVolume(req, osOk) ==
    LET stagingTarget == req.staging IN
    IF ~IsTargetInMounts(stagingTarget, mounts) THEN Fail("OK") ELSE
    LET v == verifyTargetDir(stagingTarget, FALSE) IN
    IF v.code # "OK" THEN Fail(v.code) ELSE
    IF ~v.exists THEN Fail("OK") ELSE
    LET m == isBlockVolumeMounted(stagingTarget) IN
    IF m.code # "OK" THEN Fail(m.code) ELSE
    IF m.mounted
    THEN LET um == Call("Unmount", "", stagingTarget, "", <<>>) IN
         IF osOk THEN Out("OK", Unmount(mounts, stagingTarget), files, <<um>>)
         ELSE Out("Internal", mounts, files, <<um>>)
    ELSE Fail("OK")

----------------------------------------------------------------------------
(* NodeExpandVolume                                                        *)

(* common.MbInBytes *)
MbInBytes == 1048576

(* common.RoundUpSize: the number of allocation units that hold the bytes *)
RoundUpSize(volumeSizeBytes, allocationUnitBytes) ==
    (volumeSizeBytes + allocationUnitBytes - 1) \div allocationUnitBytes

(* the largest disk, in MiB *)
MaxSizeMb == 2

DiskSizes == {k * MbInBytes : k \in 1..MaxSizeMb}

(* the requested sizes: negative, zero, and around each whole MiB *)
RequestBytes ==
    {-1, 0} \cup UNION {{k * MbInBytes - 1, k * MbInBytes, k * MbInBytes + 1} : k \in 1..MaxSizeMb}

(* a second device node, one directory deeper than /dev *)
MapperDev == "/dev/mapper/data"

PathSegments == {"", "dev", "sdb", "sda1", "mapper", "data"}

RECURSIVE Join(_)
(* strings.Join(parts, "/") *)
Join(parts) ==
    IF Len(parts) = 0 THEN ""
    ELSE IF Len(parts) = 1 THEN parts[1]
    ELSE parts[1] \o "/" \o Join(Tail(parts))

(* strings.Split(path, "/") of every device path of the model *)
SplitTable ==
    [path \in {RootDev, MapperDev} \cup {RealDevOf(id) : id \in DiskIDs} |->
        CHOOSE parts \in UNION {[1..n -> PathSegments] : n \in 1..4} : Join(parts) = path]

Split(path) == SplitTable[path]

(* strings.HasPrefix *)
HasPrefix(str, prefix) == \E rest \in PathSegments \cup {"ices"} : str = prefix \o rest

(* the CapacityRange of a request; NoRange is the nil range *)
NoRange == [RequiredBytes |-> 0, LimitBytes |-> 0, present |-> FALSE]

ExpandReqs ==
    [volumeID : {"", "vol-1"},
     capacityRange : {NoRange} \cup [RequiredBytes : RequestBytes, LimitBytes : {-1, 0},
                                      present : {TRUE}],
     volumePath : {""} \cup StagingPaths]

(* the step of a call at which the host fails, if any *)
ExpandFaults == {"none", "getsize", "rescanpath", "rescan", "resize", "getsize2"}

(* getDeviceRescanPath taking the last segment of a path of any shape *)
getDeviceRescanPath_anyShape(dev, sysOk) ==
    LET parts == Split(dev.RealDev) IN
    [ok |-> sysOk, path |-> Join(<<"/sys/block", parts[Len(parts)], "device", "rescan">>)]

(* getDeviceRescanPath: [ok, path]; sysOk is EvalSymlinks finding the file *)
getDeviceRescanPath(dev, sysOk) ==
    LET parts == Split(dev.RealDev) IN
    IF Len(parts) = 3 /\ HasPrefix(parts[2], "dev")
    THEN [ok |-> sysOk, path |-> Join(<<"/sys/block", parts[3], "device", "rescan">>)]
    ELSE [ok |-> FALSE, path |-> ""]

(* rescanDevice: [ok, calls, hit]; hit tells that the fault was met *)
rescanDevice(dev, fault) ==
    LET rp == getDeviceRescanPath(dev, fault # "rescanpath") IN
    IF ~rp.ok
    THEN [ok |-> FALSE, calls |-> <<>>, hit |-> Len(Split(dev.RealDev)) = 3]
    ELSE [ok |-> fault # "rescan",
          calls |-> <<Call("WriteFile", "1", rp.path, "", <<>>)>>, hit |-> TRUE]

(* the outcome of NodeExpandVolume: the status code, the commands run, the *)
(* sizes it leaves, the capacity of the response and whether the fault was *)
(* met                                                                     *)
ExpandOut(code, calls, dsz, fsz, capacity, hit) ==
    [code |-> code, calls |-> calls, devSize |-> dsz, fsSize |-> fsz,
     capacity |-> capacity, hit |-> hit]

ExpandFail(code) == ExpandOut(code, <<>>, devSize, fsSize, 0, FALSE)

(* NodeExpandVolume resizing without the second look at the block size *)
NodeExpandVolume_noRecheck(req, fss, fault) ==
    LET reqVolSizeBytes == req.capacityRange.RequiredBytes
        reqVolSizeMB == RoundUpSize(reqVolSizeBytes, MbInBytes)
        dm == getDevFromMount(req.volumePath)
        dev == dm.dev
        size1 == Call("blockdev", dev.RealDev, "", "", <<"--getsize64">>)
        rs == rescanDevice(dev, fault)
        needRescan == fss /\ devSize < reqVolSizeBytes
        sized == IF needRescan THEN diskSize ELSE devSize
        before == IF fss THEN <<size1>> ELSE <<>>
        pre == IF needRescan THEN before \o rs.calls ELSE before
        resize == Call("resize", dev.RealDev, req.volumePath, "", <<>>)
    IN
    IF req.volumeID = "" THEN ExpandFail("InvalidArgument") ELSE
    IF ~req.capacityRange.present THEN ExpandFail("InvalidArgument") ELSE
    IF req.capacityRange.RequiredBytes < 0 \/ req.capacityRange.LimitBytes < 0
    THEN ExpandFail("InvalidArgument") ELSE
    IF req.volumePath = "" THEN ExpandFail("InvalidArgument") ELSE
    IF ~dm.ok \/ ~dm.found THEN ExpandFail("Internal") ELSE
    IF fss /\ fault = "getsize"
    THEN ExpandOut("Internal", <<size1>>, devSize, fsSize, 0, TRUE) ELSE
    IF needRescan /\ ~rs.ok
    THEN ExpandOut("Internal", pre, devSize, fsSize, 0, rs.hit) ELSE
    IF fault = "resize"
    THEN ExpandOut("Internal", Append(pre, resize), sized, fsSize, 0, TRUE) ELSE
    ExpandOut("OK", Append(pre, resize), sized, sized, reqVolSizeMB * MbInBytes, FALSE)

(* NodeExpandVolume *)
NodeExpandVolume(req, fss, fault) ==
    LET reqVolSizeBytes == req.capacityRange.RequiredBytes
        reqVolSizeMB == RoundUpSize(reqVolSizeBytes, MbInBytes)
        dm == getDevFromMount(req.volumePath)
        dev == dm.dev
        size1 == Call("blockdev", dev.RealDev, "", "", <<"--getsize64">>)
        rs == rescanDevice(dev, fault)
        needRescan == fss /\ devSize < reqVolSizeBytes
        sized == IF needRescan THEN diskSize ELSE devSize
        before == IF fss THEN <<size1>> ELSE <<>>
        pre == IF needRescan THEN before \o rs.calls ELSE before
        resize == Call("resize", dev.RealDev, req.volumePath, "", <<>>)
    IN
    IF req.volumeID = "" THEN ExpandFail("InvalidArgument") ELSE
    IF ~req.capacityRange.present THEN ExpandFail("InvalidArgument") ELSE
    IF req.capacityRange.RequiredBytes < 0 \/ req.capacityRange.LimitBytes < 0
    THEN ExpandFail("InvalidArgument") ELSE
    IF req.volumePath = "" THEN ExpandFail("InvalidArgument") ELSE
    IF ~dm.ok \/ ~dm.found THEN ExpandFail("Internal") ELSE
    IF fss /\ fault = "getsize"
    THEN ExpandOut("Internal", <<size1>>, devSize, fsSize, 0, TRUE) ELSE
    IF needRescan /\ ~rs.ok
    THEN ExpandOut("Internal", pre, devSize, fsSize, 0, rs.hit) ELSE
    IF fault = "resize"
    THEN ExpandOut("Internal", Append(pre, resize), sized, fsSize, 0, TRUE) ELSE
    IF fault = "getsize2"
    THEN ExpandOut("Internal", pre \o <<resize, size1>>, sized, sized, 0, TRUE) ELSE
    IF sized < reqVolSizeBytes
    THEN ExpandOut("Internal", pre \o <<resize, size1>>, sized, sized, 0, FALSE) ELSE
    ExpandOut("OK", pre \o <<resize, size1>>, sized, sized, reqVolSizeMB * MbInBytes, FALSE)

----------------------------------------------------------------------------
(* The operation ledger: cnsvolumeoperationrequest                         *)

(* the cap on LatestOperationDetails *)
maxEntriesInLatestOperationDetails == 10

Names == {"pvc-1"}

(* the TaskIDs are opaque: the i-th one to be used is named after i *)
TaskName(i) == "task-" \o ToString(i)

(* the number of different non-empty TaskIDs *)
MaxTasks == 11

(* the number of stores that are not the plain store of a new task *)
MaxOdd == 1

(* what a store reports: a task in progress on a volume not yet known, a   *)
(* task that succeeded on a volume, a task that failed                     *)
InProgress ==
    [VolumeID |-> "", SnapshotID |-> "", Capacity |-> 0,
     TaskStatus |-> "InProgress", Error |-> ""]

Outcomes ==
    {InProgress,
     [VolumeID |-> "vol-1", SnapshotID |-> "snap-1", Capacity |-> 1024,
      TaskStatus |-> "Success", Error |-> ""],
     [VolumeID |-> "", SnapshotID |-> "", Capacity |-> 0,
      TaskStatus |-> "Error", Error |-> "fault"]}

(* CreateVolumeOperationRequestDetails *)
CreateVolumeOperationRequestDetails(name, volumeID, snapshotID, capacity, taskID, taskStatus, error) ==
    [Name |-> name, VolumeID |-> volumeID, SnapshotID |-> snapshotID, Capacity |-> capacity,
     OperationDetails |-> [TaskID |-> taskID, TaskStatus |-> taskStatus, Error |-> error]]

(* the nil *VolumeOperationRequestDetails *)
NoRequest == [Name |-> "", nil |-> TRUE]

(* convertToCnsVolumeOperationRequestDetails: the details as the instance  *)
(* keeps them                                                              *)
convertToCnsVolumeOperationRequestDetails(details) ==
    [TaskID |-> details.TaskID, TaskStatus |-> details.TaskStatus, Error |-> details.Error]

NoDetails == [TaskID |-> "", TaskStatus |-> "", Error |-> ""]

NoInstance ==
    [Name |-> "", ResourceVersion |-> 0,
     Status |-> [VolumeID |-> "", SnapshotID |-> "", Capacity |-> 0,
                 FirstOperationDetails |-> NoDetails, LatestOperationDetails |-> <<>>]]

(* an instance written without a status by something other than the store *)
BareInstance(name) == [NoInstance EXCEPT !.Name = name, !.ResourceVersion = 1]

(* client.Get: [err, instance] *)
k8sGet(objs, name) ==
    IF \E o \in objs : o.Name = name
    THEN [err |-> "", instance |-> CHOOSE o \in objs : o.Name = name]
    ELSE [err |-> "NotFound", instance |-> NoInstance]

(* client.Create: [err, objects]; a name is taken once *)
k8sCreate(objs, obj) ==
    IF \E o \in objs : o.Name = obj.Name
    THEN [err |-> "AlreadyExists", objects |-> objs]
    ELSE [err |-> "", objects |-> objs \cup {[obj EXCEPT !.ResourceVersion = 1]}]

(* client.Update: [err, objects]; the write is refused unless it carries   *)
(* the resource version the server holds                                   *)
k8sUpdate(objs, obj) ==
    IF ~\E o \in objs : o.Name = obj.Name
    THEN [err |-> "NotFound", objects |-> objs]
    ELSE LET cur == CHOOSE o \in objs : o.Name = obj.Name IN
         IF obj.ResourceVersion # cur.ResourceVersion
         THEN [err |-> "Conflict", objects |-> objs]
         ELSE [err |-> "",
               objects |-> (objs \ {cur})
                   \cup {[obj EXCEPT !.ResourceVersion = cur.ResourceVersion + 1]}]

(* GetRequestDetails returning the details of the first entry of the list *)
GetRequestDetails_firstEntry(objs, name, fault) ==
    LET got == k8sGet(objs, name)
        instance == got.instance
        latest == instance.Status.LatestOperationDetails
        operationDetailsToReturn == latest[1]
    IN
    IF fault = "get" THEN [err |-> "ServerError", details |-> NoRequest] ELSE
    IF got.err # "" THEN [err |-> got.err, details |-> NoRequest] ELSE
    IF Len(latest) = 0 THEN [err |-> "EmptyLatestOperationDetails", details |-> NoRequest] ELSE
    [err |-> "",
     details |-> CreateVolumeOperationRequestDetails(instance.Name, instance.Status.VolumeID,
                     instance.Status.SnapshotID, instance.Status.Capacity,
                     operationDetailsToReturn.TaskID, operationDetailsToReturn.TaskStatus,
                     operationDetailsToReturn.Error)]

(* GetRequestDetails answering an empty list with empty details *)
GetRequestDetails_emptyIsFine(objs, name, fault) ==
    LET got == k8sGet(objs, name)
        instance == got.instance
        latest == instance.Status.LatestOperationDetails
        operationDetailsToReturn == IF Len(latest) = 0 THEN NoDetails ELSE latest[Len(latest)]
    IN
    IF fault = "get" THEN [err |-> "ServerError", details |-> NoRequest] ELSE
    IF got.err # "" THEN [err |-> got.err, details |-> NoRequest] ELSE
    [err |-> "",
     details |-> CreateVolumeOperationRequestDetails(instance.Name, instance.Status.VolumeID,
                     instance.Status.SnapshotID, instance.Status.Capacity,
                     operationDetailsToReturn.TaskID, operationDetailsToReturn.TaskStatus,
                     operationDetailsToReturn.Error)]

(* GetRequestDetails: [err, details] *)
GetRequestDetails(objs, name, fault) ==
    LET got == k8sGet(objs, name)
        instance == got.instance
        latest == instance.Status.LatestOperationDetails
        operationDetailsToReturn == latest[Len(latest)]
    IN
    IF fault = "get" THEN [err |-> "ServerError", details |-> NoRequest] ELSE
    IF got.err # "" THEN [err |-> got.err, details |-> NoRequest] ELSE
    IF Len(latest) = 0 THEN [err |-> "EmptyLatestOperationDetails", details |-> NoRequest] ELSE
    [err |-> "",
     details |-> CreateVolumeOperationRequestDetails(instance.Name, instance.Status.VolumeID,
                     instance.Status.SnapshotID, instance.Status.Capacity,
                     operationDetailsToReturn.TaskID, operationDetailsToReturn.TaskStatus,
                     operationDetailsToReturn.Error)]

(* the instance StoreRequestDetails creates when the name has none *)
newInstance(operationToStore) ==
    LET operationDetailsToStore ==
            convertToCnsVolumeOperationRequestDetails(operationToStore.OperationDetails) IN
    [Name |-> operationToStore.Name, ResourceVersion |-> 0,
     Status |-> [VolumeID |-> operationToStore.VolumeID,
                 SnapshotID |-> operationToStore.SnapshotID,
                 Capacity |-> operationToStore.Capacity,
                 FirstOperationDetails |-> operationDetailsToStore,
                 LatestOperationDetails |-> <<operationDetailsToStore>>]]

(* the search missing the last element of the list *)
indexOfTask_skipsLast(list, taskID) ==
    LET hits == {i \in 1..(Len(list) - 1) : list[i].TaskID = taskID} IN
    IF hits = {} THEN 0 ELSE CHOOSE i \in hits : \A j \in hits : j <= i

(* the highest index of the list that holds the TaskID, 0 when none does *)
indexOfTask(list, taskID) ==
    LET hits == {i \in 1..Len(list) : list[i].TaskID = taskID} IN
    IF hits = {} THEN 0 ELSE CHOOSE i \in hits : \A j \in hits : j <= i

(* appending to LatestOperationDetails without a cap *)
appendCapped_noEviction(list, operationDetailsToStore) == Append(list, operationDetailsToStore)

(* appending to LatestOperationDetails, dropping the first entry when the  *)
(* list grows beyond the cap                                               *)
appendCapped(list, operationDetailsToStore) ==
    LET longer == Append(list, operationDetailsToStore) IN
    IF Len(longer) > maxEntriesInLatestOperationDetails THEN Tail(longer) ELSE longer

(* updatedInstance appending whether or not the TaskID is in the list *)
updatedInstance_alwaysAppends(instance, operationToStore) ==
    LET operationDetailsToStore ==
            convertToCnsVolumeOperationRequestDetails(operationToStore.OperationDetails)
        firstOp == instance.Status.FirstOperationDetails
        latest == instance.Status.LatestOperationDetails
    IN
    [instance EXCEPT
        !.Status.VolumeID = operationToStore.VolumeID,
        !.Status.SnapshotID = operationToStore.SnapshotID,
        !.Status.Capacity = operationToStore.Capacity,
        !.Status.FirstOperationDetails =
            IF firstOp.TaskID = "" \/ firstOp.TaskID = operationToStore.OperationDetails.TaskID
            THEN operationDetailsToStore ELSE firstOp,
        !.Status.LatestOperationDetails = appendCapped(latest, operationDetailsToStore)]

(* updatedInstance replacing FirstOperationDetails on every store *)
updatedInstance_firstReplaced(instance, operationToStore) ==
    LET operationDetailsToStore ==
            convertToCnsVolumeOperationRequestDetails(operationToStore.OperationDetails)
        latest == instance.Status.LatestOperationDetails
        index == indexOfTask(latest, operationDetailsToStore.TaskID)
    IN
    [instance EXCEPT
        !.Status.VolumeID = operationToStore.VolumeID,
        !.Status.SnapshotID = operationToStore.SnapshotID,
        !.Status.Capacity = operationToStore.Capacity,
        !.Status.FirstOperationDetails = operationDetailsToStore,
        !.Status.LatestOperationDetails =
            IF index # 0 THEN [latest EXCEPT ![index] = operationDetailsToStore]
            ELSE appendCapped(latest, operationDetailsToStore)]

(* the instance StoreRequestDetails writes back over the one it read *)
updatedInstance(instance, operationToStore) ==
    LET operationDetailsToStore ==
            convertToCnsVolumeOperationRequestDetails(operationToStore.OperationDetails)
        firstOp == instance.Status.FirstOperationDetails
        latest == instance.Status.LatestOperationDetails
        index == indexOfTask(latest, operationDetailsToStore.TaskID)
    IN
    [instance EXCEPT
        !.Status.VolumeID = operationToStore.VolumeID,
        !.Status.SnapshotID = operationToStore.SnapshotID,
        !.Status.Capacity = operationToStore.Capacity,
        !.Status.FirstOperationDetails =
            IF firstOp.TaskID = "" \/ firstOp.TaskID = operationToStore.OperationDetails.TaskID
            THEN operationDetailsToStore ELSE firstOp,
        !.Status.LatestOperationDetails =
            IF index # 0 THEN [latest EXCEPT ![index] = operationDetailsToStore]
            ELSE appendCapped(latest, operationDetailsToStore)]

(* the write of StoreRequestDetails carrying whatever resource version the *)
(* server holds at the time of the write                                   *)
storeWrite_freshVersion(objs, operationToStore, got, fault) ==
    LET call == IF got.err = "NotFound" THEN "Create" ELSE "Update"
        done == IF got.err = "NotFound" THEN k8sCreate(objs, newInstance(operationToStore))
                ELSE k8sUpdate(objs, [updatedInstance(got.instance, operationToStore) EXCEPT
                         !.ResourceVersion =
                             k8sGet(objs, operationToStore.Name).instance.ResourceVersion])
    IN  IF fault = "write"
        THEN [err |-> "ServerError", objects |-> objs, calls |-> <<call>>]
        ELSE [err |-> done.err, objects |-> done.objects, calls |-> <<call>>]

(* the write of StoreRequestDetails reading and writing once more when its *)
(* Update is refused                                                       *)
storeWrite_retries(objs, operationToStore, got, fault) ==
    LET call == IF got.err = "NotFound" THEN "Create" ELSE "Update"
        done == IF got.err = "NotFound" THEN k8sCreate(objs, newInstance(operationToStore))
                ELSE k8sUpdate(objs, updatedInstance(got.instance, operationToStore))
        again == k8sUpdate(objs, updatedInstance(k8sGet(objs, operationToStore.Name).instance,
                                                 operationToStore))
    IN  IF fault = "write"
        THEN [err |-> "ServerError", objects |-> objs, calls |-> <<call>>]
        ELSE IF done.err = "Conflict"
        THEN [err |-> again.err, objects |-> again.objects, calls |-> <<call, "Get", "Update">>]
        ELSE [err |-> done.err, objects |-> done.objects, calls |-> <<call>>]

(* the write of StoreRequestDetails after its read returned got: a Create  *)
(* when the read found nothing, an Update otherwise: [err, objects, calls] *)
storeWrite(objs, operationToStore, got, fault) ==
    LET call == IF got.err = "NotFound" THEN "Create" ELSE "Update"
        done == IF got.err = "NotFound" THEN k8sCreate(objs, newInstance(operationToStore))
                ELSE k8sUpdate(objs, updatedInstance(got.instance, operationToStore))
    IN  IF fault = "write"
        THEN [err |-> "ServerError", objects |-> objs, calls |-> <<call>>]
        ELSE [err |-> done.err, objects |-> done.objects, calls |-> <<call>>]

(* the read of StoreRequestDetails: [err, instance] *)
storeRead(objs, operationToStore, fault) ==
    IF fault = "get" THEN [err |-> "ServerError", instance |-> NoInstance]
    ELSE k8sGet(objs, operationToStore.Name)

(* StoreRequestDetails with no other writer between its read and its       *)
(* write: [err, objects, calls]                                            *)
StoreRequestDetails(objs, operationToStore, fault) ==
    IF operationToStore = NoRequest
    THEN [err |-> "cannot store empty operation", objects |-> objs, calls |-> <<>>] ELSE
    LET got == storeRead(objs, operationToStore, fault)
        out == storeWrite(objs, operationToStore, got, fault)
    IN
    IF got.err # "" /\ got.err # "NotFound"
    THEN [err |-> got.err, objects |-> objs, calls |-> <<"Get">>]
    ELSE [err |-> out.err, objects |-> out.objects, calls |-> <<"Get">> \o out.calls]

----------------------------------------------------------------------------
(* NodeGetInfo                                                             *)
(*                                                                         *)
(* The value of an environment variable is a sequence of characters; the   *)
(* empty sequence is what os.Getenv returns for a variable that is unset.  *)

maxAllowedBlockVolumesPerNode == 59

DigitValue ==
    ("0" :> 0) @@ ("1" :> 1) @@ ("2" :> 2) @@ ("3" :> 3) @@ ("4" :> 4) @@
    ("5" :> 5) @@ ("6" :> 6) @@ ("7" :> 7) @@ ("8" :> 8) @@ ("9" :> 9)

(* the largest int64 and the magnitude of the smallest, as decimal digits *)
MaxInt64Digits ==
    <<"9", "2", "2", "3", "3", "7", "2", "0", "3", "6", "8", "5", "4", "7", "7", "5", "8", "0", "7">>
MinInt64Digits ==
    <<"9", "2", "2", "3", "3", "7", "2", "0", "3", "6", "8", "5", "4", "7", "7", "5", "8", "0", "8">>

RECURSIVE StripZeros(_)
StripZeros(digits) ==
    IF Len(digits) > 1 /\ digits[1] = "0" THEN StripZeros(Tail(digits)) ELSE digits

(* a is the larger of two digit sequences of the same length *)
RECURSIVE DigitsGreater(_, _)
DigitsGreater(a, b) ==
    IF a = <<>> THEN FALSE
    ELSE IF a[1] # b[1] THEN DigitValue[a[1]] > DigitValue[b[1]]
    ELSE DigitsGreater(Tail(a), Tail(b))

RECURSIVE DecimalValue(_)
DecimalValue(digits) ==
    IF digits = <<>> THEN 0
    ELSE 10 * DecimalValue(SubSeq(digits, 1, Len(digits) - 1)) + DigitValue[digits[Len(digits)]]

(* strconv.ParseInt(v, 10, 64): an optional sign, then one or more decimal *)
(* digits, within the int64 range: [err, value]; no value is given with an *)
(* error, NodeGetInfo does not read it                                     *)
ParseInt(v) ==
    IF v = <<>> THEN [err |-> "syntax"] ELSE
    LET neg == v[1] = "-"
        digits == IF v[1] \in {"+", "-"} THEN Tail(v) ELSE v
        stripped == StripZeros(digits)
        limit == IF neg THEN MinInt64Digits ELSE MaxInt64Digits
    IN  IF digits = <<>> \/ \E i \in 1..Len(digits) : digits[i] \notin DOMAIN DigitValue
        THEN [err |-> "syntax"]
        ELSE IF Len(stripped) > Len(limit)
                \/ (Len(stripped) = Len(limit) /\ DigitsGreater(stripped, limit))
        THEN [err |-> "range"]
        ELSE [err |-> "", value |-> IF neg THEN 0 - DecimalValue(stripped)
                                           ELSE DecimalValue(stripped)]

(* the values of MAX_VOLUMES_PER_NODE the environments are drawn from *)
MaxVolumesTexts ==
    {<<>>, <<"0">>, <<"7">>, <<"5", "9">>, <<"6", "0">>, <<"-", "1">>, <<"-", "0">>,
     <<"+", "5", "9">>, <<"0", "5", "9">>, <<"0", "0", "6", "0">>, <<"1", "0", "0", "0">>,
     <<"a", "b", "c">>, <<"5", "x">>, <<" ", "5">>, <<"-">>, <<"1", "e", "1">>,
     <<"5", ".", "0">>, <<"1", "_", "0">>,
     <<"9", "2", "2", "3", "3", "7", "2", "0", "3", "6", "8", "5", "4", "7", "7", "5", "8", "0", "8">>,
     <<"9", "9", "9", "9", "9", "9", "9", "9", "9", "9", "9", "9", "9", "9", "9", "9", "9", "9", "9", "9">>,
     <<"-", "9", "9", "9", "9", "9", "9", "9", "9", "9", "9", "9", "9", "9", "9", "9", "9", "9", "9", "9", "9">>}

Environments ==
    [NODE_NAME : {"", "node-1"},
     MAX_VOLUMES_PER_NODE : MaxVolumesTexts,
     CLUSTER_FLAVOR : {"VANILLA", "GUEST_CLUSTER"},
     config : {"absent", "unreadable", "plain", "zoned"},
     vcenter : {"fault", "untagged", "tagged"}]

EnvAtRest ==
    environ = [NODE_NAME |-> "node-1", MAX_VOLUMES_PER_NODE |-> <<>>,
               CLUSTER_FLAVOR |-> "VANILLA", config |-> "absent", vcenter |-> "fault"]

InfoFail(reads) ==
    [code |-> "Internal", MaxVolumesPerNode |-> 0, topology |-> "nil", reads |-> reads]

InfoOk(max, topology, reads) ==
    [code |-> "OK", MaxVolumesPerNode |-> max, topology |-> topology, reads |-> reads]

(* what NodeGetInfo does once the maximum is known *)
nodeInfoResponse(env, max, reads) ==
    IF env.CLUSTER_FLAVOR = "GUEST_CLUSTER" THEN InfoOk(max, "empty", reads)
    ELSE IF env.config = "absent" THEN InfoOk(max, "nil", reads)
    ELSE IF env.config = "unreadable" THEN InfoFail(reads)
    ELSE IF env.config = "plain" THEN InfoOk(max, "empty", reads)
    ELSE IF env.vcenter = "fault" THEN InfoFail(reads)
    ELSE InfoOk(max, IF env.vcenter = "tagged" THEN "segments" ELSE "empty", reads)

(* NodeGetInfo without the upper limit *)
NodeGetInfo_noCeiling(env) ==
    IF env.NODE_NAME = "" THEN InfoFail(<<"NODE_NAME">>) ELSE
    LET v == env.MAX_VOLUMES_PER_NODE
        parsed == ParseInt(v)
        reads == <<"NODE_NAME", "MAX_VOLUMES_PER_NODE">>
    IN  IF v = <<>> THEN nodeInfoResponse(env, 0, reads)
        ELSE IF parsed.err # "" THEN InfoFail(reads)
        ELSE IF parsed.value < 0 THEN InfoFail(reads)
        ELSE nodeInfoResponse(env, parsed.value, reads)

(* NodeGetInfo: [code, MaxVolumesPerNode, topology, reads], reads being    *)
(* the environment variables read up to the decision on the maximum        *)
NodeGetInfo(env) ==
    IF env.NODE_NAME = "" THEN InfoFail(<<"NODE_NAME">>) ELSE
    LET v == env.MAX_VOLUMES_PER_NODE
        parsed == ParseInt(v)
        reads == <<"NODE_NAME", "MAX_VOLUMES_PER_NODE">>
    IN  IF v = <<>> THEN nodeInfoResponse(env, 0, reads)
        ELSE IF parsed.err # "" THEN InfoFail(reads)
        ELSE IF parsed.value < 0 THEN InfoFail(reads)
        ELSE IF parsed.value > maxAllowedBlockVolumesPerNode THEN InfoFail(reads)
        ELSE nodeInfoResponse(env, parsed.value, reads)

----------------------------------------------------------------------------
(* Calls on two volumes side by side                                       *)

(* the most mount records a volume has at its two paths *)
MaxOwnMounts == 2

Volumes == {1, 2}

(* the disk, the staging path and the target path of each volume *)
VolumeDisk == <<"6000c29a", "6000c29b">>
VolumeStaging == <<"/csi/pv/1/globalmount", "/csi/pv/2/globalmount">>
VolumeTarget == <<"/pods/a/mount", SecondTarget>>

NoDevice == [ok |-> FALSE, FullPath |-> "", RealDev |-> ""]

NotRunning ==
    [pc |-> "idle", op |-> "none", req |-> NoReq, dev |-> NoDevice, mnts |-> <<>>,
     code |-> "OK", atStart |-> [code |-> "OK", mounts |-> <<>>, files |-> <<>>],
     serial |-> TRUE]

RunningAtRest == running = [v \in Volumes |-> NotRunning]

----------------------------------------------------------------------------
(* Actions                                                                 *)
(*                                                                         *)
(* The CO has one call in flight at a time.  A handler call runs to        *)
(* completion in one step and leaves its record in last; the CO then       *)
(* either repeats the call with identical parameters (RetryCall) or takes  *)
(* the response (Return).  The host changes between calls.                 *)

Idle ==
    [op |-> "idle", req |-> NoReq, code |-> "OK", calls |-> <<>>, attempt |-> 0,
     prevCode |-> "none", prevCalls |-> <<>>, preMounts |-> <<>>,
     preFiles |-> [p \in AllPaths |-> "none"]]

Handler(op, req, osOk, rmOk) ==
    IF op = "NodeStageVolume" THEN NodeStageVolume(req, osOk)
    ELSE IF op = "NodePublishVolume" THEN NodePublishVolume(req, osOk)
    ELSE IF op = "NodeUnpublishVolume" THEN NodeUnpublishVolume(req, osOk, rmOk)
    ELSE NodeUnstageVolume(req, osOk)

(* the handler ran a mount, format or unmount command *)
RanCommand(calls) == \E i \in 1..Len(calls) : calls[i].cmd # "Remove"

(* the handler tried to remove a path *)
RanRemove(calls) == \E i \in 1..Len(calls) : calls[i].cmd = "Remove"

(* the handler's outcome becomes the host state.  A failing host command   *)
(* (osOk = FALSE) is a different call only when the handler ran a command, *)
(* a refused removal (rmOk = FALSE) only when it tried to remove a path.   *)
Commit(op, req, osOk, rmOk, attempt) ==
    LET out == Handler(op, req, osOk, rmOk) IN
    /\ osOk \/ RanCommand(out.calls)
    /\ rmOk \/ RanRemove(out.calls)
    /\ Len(out.mounts) <= MaxMounts
    /\ mounts' = out.mounts
    /\ files' = out.files
    /\ last' = [op |-> op, req |-> req, code |-> out.code, calls |-> out.calls,
                attempt |-> attempt,
                prevCode |-> IF attempt = 1 THEN "none" ELSE last.code,
                prevCalls |-> IF attempt = 1 THEN <<>> ELSE last.calls,
                preMounts |-> mounts, preFiles |-> files]
    /\ UNCHANGED <<hostVars, sizeVars, ledgerVars, environ, running>>

StageCall ==
    /\ last = Idle
    /\ \E req \in StageReqs, osOk \in BOOLEAN : Commit("NodeStageVolume", req, osOk, TRUE, 1)

PublishCall ==
    /\ last = Idle
    /\ \E req \in PublishReqs, osOk \in BOOLEAN : Commit("NodePublishVolume", req, osOk, TRUE, 1)

UnpublishCall ==
    /\ last = Idle
    /\ \E req \in UnpublishReqs, osOk \in BOOLEAN, rmOk \in BOOLEAN :
           Commit("NodeUnpublishVolume", req, osOk, rmOk, 1)

UnstageCall ==
    /\ last = Idle
    /\ \E req \in UnstageReqs, osOk \in BOOLEAN : Commit("NodeUnstageVolume", req, osOk, TRUE, 1)

RetryCall ==
    /\ last # Idle
    /\ last.attempt < MaxAttempts
    /\ \E osOk \in BOOLEAN, rmOk \in BOOLEAN :
           Commit(last.op, last.req, osOk, rmOk, last.attempt + 1)

Return ==
    /\ last # Idle
    /\ last' = Idle
    /\ UNCHANGED <<nodeVars, sizeVars, ledgerVars, environ, running>>

(* a disk is attached: its device node appears and udev creates its by-id  *)
(* entries, the wwn entry included or not                                  *)
HostAttach ==
    /\ last = Idle
    /\ \E id \in DiskIDs, wwn \in BOOLEAN :
        /\ RealDevOf(id) \notin blockDevs
        /\ blockDevs' = blockDevs \cup {RealDevOf(id)}
        /\ byId' = byId \cup {"scsi-3" \o id} \cup (IF wwn THEN {blockPrefix \o id} ELSE {})
    /\ UNCHANGED <<mounts, files, devfs, last, sizeVars, ledgerVars, environ, running>>

(* a disk is detached: its device node goes away; the wwn entry may linger *)
HostDetach ==
    /\ last = Idle
    /\ \E id \in DiskIDs, stale \in BOOLEAN :
        /\ RealDevOf(id) \in blockDevs
        /\ blockDevs' = blockDevs \ {RealDevOf(id)}
        /\ byId' = byId \ ({"scsi-3" \o id} \cup (IF stale THEN {} ELSE {blockPrefix \o id}))
    /\ UNCHANGED <<mounts, files, devfs, last, sizeVars, ledgerVars, environ, running>>

(* the CO (or anyone else) creates a directory or a file at a free path *)
HostCreate ==
    /\ last = Idle
    /\ \E p \in Paths, k \in {"dir", "file"} :
        /\ files[p] = "none"
        /\ files' = [files EXCEPT ![p] = k]
    /\ UNCHANGED <<mounts, byId, blockDevs, devfs, last, sizeVars, ledgerVars, environ, running>>

(* something else on the host mounts an attached disk at OtherPath *)
HostMount ==
    /\ last = Idle
    /\ Len(mounts) < MaxMounts
    /\ \E id \in DiskIDs :
        /\ RealDevOf(id) \in blockDevs
        /\ mounts' = Append(mounts, MountRecord(RealDevOf(id), OtherPath, "ext4", <<>>))
    /\ UNCHANGED <<files, byId, blockDevs, devfs, last, sizeVars, ledgerVars, environ, running>>

Callers == {"c1", "c2"}

(* a caller that is in no StoreRequestDetails call *)
NoCall ==
    [pc |-> "idle", req |-> NoRequest, got |-> [err |-> "", instance |-> NoInstance],
     fault |-> "none", err |-> "", wrote |-> 0, calls |-> <<>>, changed |-> FALSE]

(* nothing has been stored *)
NoHist ==
    [odd |-> 0, stored |-> [n \in Names |-> NoRequest], order |-> [n \in Names |-> <<>>]]

(* one disk of one MiB with a filesystem that fills it *)
SizesAtRest ==
    /\ devSize = MbInBytes
    /\ diskSize = MbInBytes
    /\ fsSize = MbInBytes

(* an API server without instances and no call in flight *)
LedgerAtRest ==
    /\ objects = {}
    /\ inflight = [c \in Callers |-> NoCall]
    /\ hist = NoHist

Init ==
    /\ mounts = <<>>
    /\ files = [p \in AllPaths |-> "none"]
    /\ byId = {}
    /\ blockDevs = {RootDev}
    /\ devfs \in {"udev", "devtmpfs"}
    /\ last = Idle
    /\ EnvAtRest
    /\ RunningAtRest
    /\ SizesAtRest
    /\ LedgerAtRest

Next ==
    \/ StageCall
    \/ PublishCall
    \/ UnpublishCall
    \/ UnstageCall
    \/ RetryCall
    \/ Return
    \/ HostAttach
    \/ HostDetach
    \/ HostCreate
    \/ HostMount

Spec == Init /\ [][Next]_vars

----------------------------------------------------------------------------
(* The raw-block life of one volume: the disk is attached and mounted      *)
(* nowhere, and the CO issues block-capability NodePublishVolume and       *)
(* NodeUnpublishVolume calls to either of two targets, one call at a time. *)

BlockTargets == TargetPaths \cup {SecondTarget}

BlockPublishReqs == {r \in ReqsTo(BlockTargets) : r.kind = "block"}

BlockUnpublishReqs == {[NoReq EXCEPT !.target = t] : t \in BlockTargets}

BlockPublishCall ==
    /\ last = Idle
    /\ \E req \in BlockPublishReqs, osOk \in BOOLEAN :
           Commit("NodePublishVolume", req, osOk, TRUE, 1)

BlockUnpublishCall ==
    /\ last = Idle
    /\ \E req \in BlockUnpublishReqs, osOk \in BOOLEAN, rmOk \in BOOLEAN :
           Commit("NodeUnpublishVolume", req, osOk, rmOk, 1)

InitBlock ==
    /\ mounts = <<>>
    /\ files = [p \in AllPaths |-> "none"]
    /\ byId = {n \o id : n \in {blockPrefix, "scsi-3"}, id \in DiskIDs}
    /\ blockDevs = {RootDev} \cup {RealDevOf(id) : id \in DiskIDs}
    /\ devfs \in {"udev", "devtmpfs"}
    /\ last = Idle
    /\ EnvAtRest
    /\ RunningAtRest
    /\ SizesAtRest
    /\ LedgerAtRest

NextBlock ==
    \/ BlockPublishCall
    \/ BlockUnpublishCall
    \/ RetryCall
    \/ Return

SpecBlock == InitBlock /\ [][NextBlock]_vars

----------------------------------------------------------------------------
(* Expansion of one volume: the device is on the host, the volume path is  *)
(* mounted from it or not, the disk behind it grows between calls, and the *)
(* CO issues NodeExpandVolume calls one at a time.                         *)

ExpandCall ==
    /\ last = Idle
    /\ \E req \in ExpandReqs, fss \in BOOLEAN, fault \in ExpandFaults :
        LET out == NodeExpandVolume(req, fss, fault) IN
        /\ fault = "none" \/ out.hit
        /\ devSize' = out.devSize
        /\ fsSize' = out.fsSize
        /\ last' = [op |-> "NodeExpandVolume", req |-> req, code |-> out.code,
                    calls |-> out.calls, attempt |-> 1, prevCode |-> "none",
                    prevCalls |-> <<>>, preMounts |-> mounts, preFiles |-> files,
                    fss |-> fss, fault |-> fault, capacity |-> out.capacity,
                    preDevSize |-> devSize, preFsSize |-> fsSize]
    /\ UNCHANGED <<nodeVars, diskSize, ledgerVars, environ, running>>

(* the disk is extended on the storage side *)
HostGrow ==
    /\ last = Idle
    /\ \E size \in DiskSizes :
        /\ size > diskSize
        /\ diskSize' = size
    /\ UNCHANGED <<nodeVars, last, devSize, fsSize, ledgerVars, environ, running>>

InitExpand ==
    /\ \E d \in {MapperDev} \cup {RealDevOf(id) : id \in DiskIDs} :
        /\ blockDevs = {RootDev, d}
        /\ \E p \in StagingPaths : mounts \in {<<>>, <<MountRecord(d, p, "ext4", <<>>)>>}
    /\ files = [p \in AllPaths |-> IF p \in StagingPaths THEN "dir" ELSE "none"]
    /\ byId = {}
    /\ devfs = "devtmpfs"
    /\ last = Idle
    /\ EnvAtRest
    /\ RunningAtRest
    /\ diskSize \in DiskSizes
    /\ devSize \in {size \in DiskSizes : size <= diskSize}
    /\ fsSize = devSize
    /\ LedgerAtRest

NextExpand ==
    \/ ExpandCall
    \/ HostGrow
    \/ Return

SpecExpand == InitExpand /\ [][NextExpand]_vars

----------------------------------------------------------------------------
(* The ledger under one caller: StoreRequestDetails and GetRequestDetails  *)
(* calls follow one another, each running to completion.  A new task gets  *)
(* the next unused TaskID; a store that repeats a TaskID, carries an empty *)
(* TaskID or reports the end of a task is an odd                           *)
(* store, and a history has at most MaxOdd of them.  The API server fails  *)
(* plain stores only.                                                      *)

UsedTasks(name) == {hist.order[name][i] : i \in 1..Len(hist.order[name])}

NextTask(name) == TaskName(Cardinality(UsedTasks(name) \ {""}) + 1)

PlainStore(name) ==
    CreateVolumeOperationRequestDetails(name, InProgress.VolumeID, InProgress.SnapshotID,
                                        InProgress.Capacity, NextTask(name),
                                        InProgress.TaskStatus, InProgress.Error)

(* the TaskIDs a store repeats: the first one ever stored and those of the *)
(* oldest and the newest entry of LatestOperationDetails                   *)
RepeatTasks(name) ==
    LET list == k8sGet(objects, name).instance.Status.LatestOperationDetails IN
    (IF Len(hist.order[name]) = 0 THEN {} ELSE {hist.order[name][1]})
        \cup (IF Len(list) = 0 THEN {} ELSE {list[1].TaskID, list[Len(list)].TaskID})

StoreInputs ==
    {NoRequest} \cup
    {CreateVolumeOperationRequestDetails(n, o.VolumeID, o.SnapshotID, o.Capacity, t,
                                         o.TaskStatus, o.Error) :
        n \in Names, o \in Outcomes,
        t \in UNION {RepeatTasks(m) \cup {"", NextTask(m)} : m \in Names}}

StoreFaults == {"none", "get", "write"}

StoreCall ==
    \E req \in StoreInputs, fault \in StoreFaults :
        LET out == StoreRequestDetails(objects, req, fault)
            name == req.Name
            task == req.OperationDetails.TaskID
            plain == req = PlainStore(name)
        IN
        /\ req # NoRequest =>
               /\ plain \/ (hist.odd < MaxOdd /\ fault = "none")
               /\ task \in UsedTasks(name) \cup {""}
                      \/ Cardinality(UsedTasks(name) \ {""}) < MaxTasks
        /\ objects' = out.objects
        /\ hist' = IF out.err # "" THEN hist
                   ELSE [odd |-> IF plain THEN hist.odd ELSE hist.odd + 1,
                         stored |-> [hist.stored EXCEPT ![name] = req],
                         order |-> [hist.order EXCEPT ![name] =
                                       IF task \in UsedTasks(name) THEN @ ELSE Append(@, task)]]
        /\ last' = [op |-> "StoreRequestDetails", req |-> req, fault |-> fault,
                    err |-> out.err, details |-> NoRequest, pre |-> objects]
        /\ UNCHANGED <<nodeVars, sizeVars, inflight, environ, running>>

GetCall ==
    \E name \in Names, fault \in {"none", "get"} :
        LET out == GetRequestDetails(objects, name, fault) IN
        /\ last' = [op |-> "GetRequestDetails", req |-> [NoRequest EXCEPT !.Name = name],
                    fault |-> fault, err |-> out.err, details |-> out.details,
                    pre |-> objects]
        /\ UNCHANGED <<nodeVars, sizeVars, ledgerVars, environ, running>>

InitLedger ==
    /\ mounts = <<>>
    /\ files = [p \in AllPaths |-> "none"]
    /\ byId = {}
    /\ blockDevs = {RootDev}
    /\ devfs = "devtmpfs"
    /\ last = Idle
    /\ EnvAtRest
    /\ RunningAtRest
    /\ SizesAtRest
    /\ objects \in {{}} \cup {{BareInstance(n)} : n \in Names}
    /\ inflight = [c \in Callers |-> NoCall]
    /\ hist = NoHist

NextLedger ==
    \/ StoreCall
    \/ GetCall

SpecLedger == InitLedger /\ [][NextLedger]_vars

----------------------------------------------------------------------------
(* The ledger under two callers: each StoreRequestDetails call is a read   *)
(* of the API server followed by a write, and the steps of the two calls   *)
(* interleave.  A caller that is done keeps its result until no call is in *)
(* flight.                                                                 *)

(* the number of writes the API server accepts for an instance *)
MaxWrites == 3

RaceInputs ==
    {NoRequest} \cup
    {CreateVolumeOperationRequestDetails(n, o.VolumeID, o.SnapshotID, o.Capacity, TaskName(i),
                                         o.TaskStatus, o.Error) :
        n \in Names, i \in 1..2, o \in {out \in Outcomes : out.Error = ""}}

(* the resource version of the instance of the name, 0 when it has none *)
VersionOf(objs, name) == k8sGet(objs, name).instance.ResourceVersion

RaceBegin(c) ==
    /\ inflight[c].pc = "idle"
    /\ \E req \in RaceInputs :
        /\ VersionOf(objects, req.Name) < MaxWrites
        /\ inflight' = [inflight EXCEPT ![c] = [NoCall EXCEPT !.pc = "read", !.req = req]]
    /\ UNCHANGED <<nodeVars, sizeVars, last, objects, hist, environ, running>>

(* part_001:152-183 *)
RaceRead(c) ==
    /\ inflight[c].pc = "read"
    /\ \E fault \in {"none", "get"} :
        LET got == storeRead(objects, inflight[c].req, fault) IN
        /\ inflight[c].req = NoRequest => fault = "none"
        /\ inflight' = [inflight EXCEPT ![c] =
                        IF inflight[c].req = NoRequest
                        THEN [@ EXCEPT !.pc = "done",
                                       !.err = StoreRequestDetails(objects, NoRequest, fault).err]
                        ELSE IF got.err # "" /\ got.err # "NotFound"
                        THEN [@ EXCEPT !.pc = "done", !.got = got, !.fault = fault,
                                       !.err = got.err, !.calls = <<"Get">>]
                        ELSE [@ EXCEPT !.pc = "write", !.got = got, !.calls = <<"Get">>]]
    /\ UNCHANGED <<nodeVars, sizeVars, last, objects, hist, environ, running>>

(* part_001:173-179 and 185-225 *)
RaceWrite(c) ==
    /\ inflight[c].pc = "write"
    /\ \E fault \in {"none", "write"} :
        LET req == inflight[c].req
            out == storeWrite(objects, req, inflight[c].got, fault)
            task == req.OperationDetails.TaskID
        IN
        /\ objects' = out.objects
        /\ inflight' = [inflight EXCEPT ![c] =
                           [@ EXCEPT !.pc = "done", !.fault = fault, !.err = out.err,
                                     !.calls = @ \o out.calls,
                                     !.changed = out.objects # objects,
                                     !.wrote = IF out.err = "" THEN VersionOf(out.objects, req.Name)
                                               ELSE 0]]
        /\ hist' = IF out.err # "" THEN hist
                   ELSE [hist EXCEPT !.stored[req.Name] = req,
                                     !.order[req.Name] =
                                         IF task \in UsedTasks(req.Name) THEN @ ELSE Append(@, task)]
    /\ UNCHANGED <<nodeVars, sizeVars, last, environ, running>>

(* the callers take their results *)
RaceReturn ==
    /\ \A c \in Callers : inflight[c].pc \in {"idle", "done"}
    /\ \E c \in Callers : inflight[c].pc = "done"
    /\ inflight' = [c \in Callers |-> NoCall]
    /\ UNCHANGED <<nodeVars, sizeVars, last, objects, hist, environ, running>>

Begin == \E c \in Callers : RaceBegin(c)

Read == \E c \in Callers : RaceRead(c)

Write == \E c \in Callers : RaceWrite(c)

InitRace ==
    /\ mounts = <<>>
    /\ files = [p \in AllPaths |-> "none"]
    /\ byId = {}
    /\ blockDevs = {RootDev}
    /\ devfs = "devtmpfs"
    /\ last = Idle
    /\ EnvAtRest
    /\ RunningAtRest
    /\ SizesAtRest
    /\ LedgerAtRest

NextRace ==
    \/ Begin
    \/ Read
    \/ Write
    \/ RaceReturn

SpecRace == InitRace /\ [][NextRace]_vars

----------------------------------------------------------------------------
(* Calls on two volumes side by side.  The CO has at most one call in      *)
(* flight per volume.  A call advances by one read of the mount table, or  *)
(* one mount or unmount, at a time (its file system calls go with the read *)
(* that follows them), and the calls of the two volumes interleave.        *)

(* the records of a mount table at the paths of a volume, in table order *)
Own(v, mnts) ==
    LET ofVolume(m) == m.Path \in {VolumeStaging[v], VolumeTarget[v]}
    IN  SelectSeq(mnts, ofVolume)

(* what is at the staging path and at the target path of a volume *)
OwnFiles(v, fls) == <<fls[VolumeStaging[v]], fls[VolumeTarget[v]]>>

VolumeCtx(v) == [diskUUID |-> VolumeDisk[v], nfs |-> Absent]

VolumeReqs(v, op) ==
    IF op = "NodeStageVolume"
    THEN [kind : {"mount", "block"}, flags : {<<>>}, ro : {FALSE}, guest : {FALSE},
          staging : {VolumeStaging[v]}, target : {""}, pubCtx : {VolumeCtx(v)}]
    ELSE IF op = "NodePublishVolume"
    THEN [kind : {"mount", "block"}, flags : {<<>>}, ro : {FALSE}, guest : {FALSE},
          staging : {VolumeStaging[v]}, target : {VolumeTarget[v]}, pubCtx : {VolumeCtx(v)}]
    ELSE IF op = "NodeUnpublishVolume" THEN {[NoReq EXCEPT !.target = VolumeTarget[v]]}
    ELSE {[NoReq EXCEPT !.staging = VolumeStaging[v]]}

VolumeCalls ==
    {"NodeStageVolume", "NodePublishVolume", "NodeUnpublishVolume", "NodeUnstageVolume"}

(* where a call starts *)
FirstStep(op) ==
    IF op = "NodeStageVolume" THEN "stage"
    ELSE IF op = "NodePublishVolume" THEN "publish"
    ELSE IF op = "NodeUnpublishVolume" THEN "unpublish"
    ELSE "unstage"

(* the result of a step: the call record, the mount table and the files *)
Stepped(r, mnts, fls) == [r |-> r, mounts |-> mnts, files |-> fls]

Goes(r, pc) == Stepped([r EXCEPT !.pc = pc], mounts, files)

Ends(r, code) == Stepped([r EXCEPT !.pc = "done", !.code = code], mounts, files)

(* the disk of the request resolved to its device: [code, dev] *)
resolveDevice(req) ==
    LET d == getDiskID(req.pubCtx)
        a == verifyVolumeAttached(d.diskID)
        dev == getDevice(a.volPath)
    IN  IF d.code # "OK" THEN [code |-> d.code, dev |-> NoDevice]
        ELSE IF a.code # "OK" THEN [code |-> a.code, dev |-> NoDevice]
        ELSE IF ~dev.ok THEN [code |-> "Internal", dev |-> NoDevice]
        ELSE [code |-> "OK", dev |-> dev]

stageParams(req) ==
    [ro |-> IsVolumeReadOnly(req), fsType |-> ensureMountVol(req).fsType,
     mntFlags |-> ensureMountVol(req).mntFlags, stagingTarget |-> req.staging]

publishParams(req) == [target |-> req.target, ro |-> req.ro, stagingTarget |-> req.staging]

(* publishMountVol once it has read the mounts of the device *)
bindMountVol(devMnts, params, flags) ==
    LET atTarget(m) == m.Path = params.target
        hits == SelectSeq(devMnts, atTarget)
        rwo == IF params.ro THEN "ro" ELSE "rw"
        mntFlags == IF params.ro THEN Append(flags, "ro") ELSE flags
    IN  IF Len(devMnts) > 1 /\ Len(hits) > 0
        THEN IF ~contains(hits[1].Opts, rwo) THEN Fail("AlreadyExists") ELSE Fail("OK")
        ELSE IF Len(devMnts) = 0 THEN Fail("FailedPrecondition")
        ELSE Out("OK", Append(mounts, BindRecord(params.stagingTarget, params.target, mntFlags)),
                 files, <<>>)

(* publishBlockVol once it has read the mounts of the device *)
bindBlockVol(devMnts, dev, params) ==
    IF Len(devMnts) = 0
    THEN Out("OK", Append(mounts, BindRecord(dev.FullPath, params.target, <<>>)), files, <<>>)
    ELSE IF Len(devMnts) = 1
    THEN IF devMnts[1].Path # params.target THEN Fail("Internal") ELSE Fail("OK")
    ELSE Fail("AlreadyExists")

(* NodeStageVolume, step by step *)
StageStep(r) ==
    LET req == r.req
        params == stageParams(req)
        v == verifyTargetDir(req.staging, TRUE)
        dv == resolveDevice(req)
        out == IF Len(r.mnts) = 0 THEN stageFreshDevice(r.dev, params, TRUE)
               ELSE stageMountedDevice(r.dev, r.mnts, params, TRUE)
    IN  IF r.pc = "stage"
        THEN IF req.kind = "mount" /\ v.code # "OK" THEN Ends(r, v.code)
             ELSE IF dv.code # "OK" THEN Ends(r, dv.code)
             ELSE IF req.kind = "block" THEN Ends(r, "OK")
             ELSE Goes([r EXCEPT !.dev = dv.dev], "stage.read")
        ELSE IF r.pc = "stage.read"
        THEN Goes([r EXCEPT !.mnts = GetDevMounts(r.dev.RealDev)], "stage.mount")
        ELSE Stepped([r EXCEPT !.pc = "done", !.code = out.code], out.mounts, out.files)

(* NodePublishVolume, step by step *)
PublishStep(r) ==
    LET req == r.req
        params == publishParams(req)
        dv == resolveDevice(req)
        mk == IF req.kind = "block" THEN mkfile(req.target) ELSE mkdir(req.target)
        v == verifyTargetDir(req.staging, TRUE)
        out == IF req.kind = "block" THEN bindBlockVol(r.mnts, r.dev, params)
               ELSE bindMountVol(r.mnts, params, ensureMountVol(req).mntFlags)
    IN  IF r.pc = "publish"
        THEN IF req.staging = "" THEN Ends(r, "FailedPrecondition")
             ELSE IF dv.code # "OK" THEN Ends(r, dv.code)
             ELSE IF ~mk.ok THEN Ends(r, "Internal")
             ELSE IF req.kind = "block" /\ req.ro
             THEN Stepped([r EXCEPT !.pc = "done", !.code = "InvalidArgument"], mounts, mk.files)
             ELSE IF req.kind = "mount" /\ v.code # "OK"
             THEN Stepped([r EXCEPT !.pc = "done", !.code = v.code], mounts, mk.files)
             ELSE Stepped([r EXCEPT !.pc = "publish.read", !.dev = dv.dev], mounts, mk.files)
        ELSE IF r.pc = "publish.read"
        THEN Goes([r EXCEPT !.mnts = getDevMounts(r.dev)], "publish.mount")
        ELSE Stepped([r EXCEPT !.pc = "done", !.code = out.code], out.mounts, out.files)

(* NodeUnpublishVolume, step by step *)
UnpublishStep(r) ==
    LET target == r.req.target
        dm == getDevFromMount(target)
        rm == rmpath(mounts, files, target, TRUE)
    IN  IF r.pc = "unpublish"
        THEN IF Stat(files, target) = "none" THEN Ends(r, "OK")
             ELSE Goes(r, "unpublish.read")
        ELSE IF r.pc = "unpublish.read"
        THEN IF ~IsTargetInMounts(target, mounts) THEN Ends(r, "OK")
             ELSE IF IsFileVolumeMount(target, mounts) THEN Goes(r, "unpublish.unmount")
             ELSE Goes(r, "unpublish.device")
        ELSE IF r.pc = "unpublish.device"
        THEN IF ~dm.ok THEN Ends(r, "Internal")
             ELSE IF ~dm.found THEN Goes(r, "unpublish.remove")
             ELSE Goes(r, "unpublish.unmount")
        ELSE IF r.pc = "unpublish.unmount"
        THEN Stepped([r EXCEPT !.pc = "unpublish.remove"], Unmount(mounts, target), files)
        ELSE IF ~rm.ok THEN Ends(r, "Internal")
             ELSE Stepped([r EXCEPT !.pc = "done", !.code = "OK"], mounts, rm.files)

(* NodeUnstageVolume, step by step *)
UnstageStep(r) ==
    LET stagingTarget == r.req.staging
        v == verifyTargetDir(stagingTarget, FALSE)
        dm == getDevFromMount(stagingTarget)
    IN  IF r.pc = "unstage"
        THEN IF ~IsTargetInMounts(stagingTarget, mounts) THEN Ends(r, "OK")
             ELSE Goes(r, "unstage.device")
        ELSE IF r.pc = "unstage.device"
        THEN IF v.code # "OK" THEN Ends(r, v.code)
             ELSE IF ~v.exists THEN Ends(r, "OK")
             ELSE IF ~dm.ok THEN Ends(r, "Internal")
             ELSE IF ~dm.found THEN Ends(r, "OK")
             ELSE Goes([r EXCEPT !.dev = dm.dev], "unstage.count")
        ELSE IF r.pc = "unstage.count"
        THEN IF Len(GetDevMounts(r.dev.RealDev)) > 1 THEN Ends(r, "Internal")
             ELSE Goes(r, "unstage.unmount")
        ELSE Stepped([r EXCEPT !.pc = "done", !.code = "OK"],
                     Unmount(mounts, stagingTarget), files)

Step(r) ==
    IF r.op = "NodeStageVolume" THEN StageStep(r)
    ELSE IF r.op = "NodePublishVolume" THEN PublishStep(r)
    ELSE IF r.op = "NodeUnpublishVolume" THEN UnpublishStep(r)
    ELSE UnstageStep(r)

(* the CO sends a call on a volume that has none in flight; atStart is     *)
(* what the whole call would return and leave at the paths of the volume   *)
(* were it to run now with nothing in between                              *)
VolumeBegin ==
    \E v \in Volumes, op \in VolumeCalls :
    \E req \in VolumeReqs(v, op) :
        LET out == Handler(op, req, TRUE, TRUE) IN
        /\ running[v].pc = "idle"
        /\ Len(Own(v, out.mounts)) <= MaxOwnMounts
        /\ running' = [running EXCEPT ![v] =
               [NotRunning EXCEPT !.pc = FirstStep(op), !.op = op, !.req = req,
                    !.atStart = [code |-> out.code, mounts |-> Own(v, out.mounts),
                                 files |-> OwnFiles(v, out.files)]]]
        /\ UNCHANGED <<nodeVars, last, sizeVars, ledgerVars, environ>>

(* a call takes its next step; serial tells whether the mount table after  *)
(* a step that changed it is the one the whole call, run at that moment,   *)
(* leaves                                                                  *)
VolumeStep ==
    \E v \in Volumes :
        LET r == running[v]
            next == Step(r)
            whole == Handler(r.op, r.req, TRUE, TRUE)
        IN  /\ r.pc \notin {"idle", "done"}
            /\ mounts' = next.mounts
            /\ files' = next.files
            /\ running' = [running EXCEPT ![v] =
                   [next.r EXCEPT !.serial = (next.mounts = mounts \/ next.mounts = whole.mounts)]]
            /\ UNCHANGED <<hostVars, last, sizeVars, ledgerVars, environ>>

(* the CO takes the response; the record keeps what the call left at the   *)
(* paths of the volume                                                     *)
VolumeReturn ==
    \E v \in Volumes :
        /\ running[v].pc = "done"
        /\ running' = [running EXCEPT ![v] =
               [NotRunning EXCEPT !.atStart = [code |-> "OK", mounts |-> Own(v, mounts),
                                               files |-> OwnFiles(v, files)]]]
        /\ UNCHANGED <<nodeVars, last, sizeVars, ledgerVars, environ>>

(* both disks attached, both staging directories there, nothing mounted *)
InitVolumes ==
    /\ mounts = <<>>
    /\ files = [p \in AllPaths |-> IF p \in {VolumeStaging[v] : v \in Volumes}
                                   THEN "dir" ELSE "none"]
    /\ byId = {n \o VolumeDisk[v] : n \in {blockPrefix, "scsi-3"}, v \in Volumes}
    /\ blockDevs = {RootDev} \cup {RealDevOf(VolumeDisk[v]) : v \in Volumes}
    /\ devfs \in {"udev", "devtmpfs"}
    /\ last = Idle
    /\ running = [v \in Volumes |->
           [NotRunning EXCEPT !.atStart = [code |-> "OK", mounts |-> <<>>,
                                           files |-> OwnFiles(v, files)]]]
    /\ SizesAtRest
    /\ LedgerAtRest
    /\ environ = [NODE_NAME |-> "node-1", MAX_VOLUMES_PER_NODE |-> <<>>,
                  CLUSTER_FLAVOR |-> "VANILLA", config |-> "absent", vcenter |-> "fault"]

NextVolumes ==
    \/ VolumeBegin
    \/ VolumeStep
    \/ VolumeReturn

SpecVolumes == InitVolumes /\ [][NextVolumes]_vars

----------------------------------------------------------------------------
(* Two workloads: volumes of every capability published to and unpublished *)
(* from two target paths, the disk attached and the staging directory      *)
(* there from the start.                                                   *)

WorkloadPublishReqs == ReqsTo(BlockTargets)

WorkloadPublishCall ==
    /\ last = Idle
    /\ \E req \in WorkloadPublishReqs, osOk \in BOOLEAN :
           Commit("NodePublishVolume", req, osOk, TRUE, 1)

WorkloadUnpublishCall ==
    /\ last = Idle
    /\ \E req \in BlockUnpublishReqs, osOk \in BOOLEAN, rmOk \in BOOLEAN :
           Commit("NodeUnpublishVolume", req, osOk, rmOk, 1)

InitWorkloads ==
    /\ mounts = <<>>
    /\ files = [p \in AllPaths |-> IF p \in StagingPaths THEN "dir" ELSE "none"]
    /\ byId = {n \o id : n \in {blockPrefix, "scsi-3"}, id \in DiskIDs}
    /\ blockDevs = {RootDev} \cup {RealDevOf(id) : id \in DiskIDs}
    /\ devfs \in {"udev", "devtmpfs"}
    /\ last = Idle
    /\ EnvAtRest
    /\ RunningAtRest
    /\ SizesAtRest
    /\ LedgerAtRest

NextWorkloads ==
    \/ StageCall
    \/ WorkloadPublishCall
    \/ WorkloadUnpublishCall
    \/ Return

SpecWorkloads == InitWorkloads /\ [][NextWorkloads]_vars

----------------------------------------------------------------------------
(* One volume through its lifecycle: the CO stages, publishes, unpublishes *)
(* and unstages a mount-capability volume, going on to the next call when  *)
(* the call before it returned success.                                    *)

Lifecycle == <<"NodeStageVolume", "NodePublishVolume", "NodeUnpublishVolume", "NodeUnstageVolume">>

(* the parameters the CO keeps through the lifecycle of a volume *)
CycleParams ==
    [disk : DiskIDs, staging : StagingPaths, target : TargetPaths, flags : FlagSets,
     stageRo : BOOLEAN, publishRo : BOOLEAN]

CycleReq(op, c) ==
    IF op = "NodeStageVolume"
    THEN [kind |-> "mount", flags |-> c.flags, ro |-> c.stageRo, guest |-> FALSE,
          staging |-> c.staging, target |-> "", pubCtx |-> [diskUUID |-> c.disk, nfs |-> Absent]]
    ELSE IF op = "NodePublishVolume"
    THEN [kind |-> "mount", flags |-> c.flags, ro |-> c.publishRo, guest |-> FALSE,
          staging |-> c.staging, target |-> c.target,
          pubCtx |-> [diskUUID |-> c.disk, nfs |-> Absent]]
    ELSE IF op = "NodeUnpublishVolume" THEN [NoReq EXCEPT !.target = c.target]
    ELSE [NoReq EXCEPT !.staging = c.staging]

(* the call at position step of the lifecycle, as Commit runs a call *)
CycleCall(step) ==
    /\ last.step = step - 1
    /\ last.code = "OK"
    /\ \E osOk \in BOOLEAN, rmOk \in BOOLEAN :
        LET op == Lifecycle[step]
            req == CycleReq(op, last.cycle)
            out == Handler(op, req, osOk, rmOk)
        IN  /\ osOk \/ RanCommand(out.calls)
            /\ rmOk \/ RanRemove(out.calls)
            /\ Len(out.mounts) <= MaxMounts
            /\ mounts' = out.mounts
            /\ files' = out.files
            /\ last' = [op |-> op, req |-> req, code |-> out.code, calls |-> out.calls,
                        attempt |-> 1, prevCode |-> "none", prevCalls |-> <<>>,
                        preMounts |-> mounts, preFiles |-> files,
                        step |-> step, cycle |-> last.cycle, osOk |-> osOk, rmOk |-> rmOk,
                        startMounts |-> last.startMounts]
    /\ UNCHANGED <<hostVars, sizeVars, ledgerVars, environ, running>>

CycleStage == CycleCall(1)
CyclePublish == CycleCall(2)
CycleUnpublish == CycleCall(3)
CycleUnstage == CycleCall(4)

(* the disk is attached and mounted nowhere, the staging directory is      *)
(* there, the target path is not; the host may have a mount of its own     *)
InitCycle ==
    /\ mounts \in {<<>>, <<MountRecord(RootDev, OtherPath, "ext4", <<>>)>>}
    /\ files = [p \in AllPaths |-> IF p \in StagingPaths THEN "dir" ELSE "none"]
    /\ byId = {n \o id : n \in {blockPrefix, "scsi-3"}, id \in DiskIDs}
    /\ blockDevs = {RootDev} \cup {RealDevOf(id) : id \in DiskIDs}
    /\ devfs \in {"udev", "devtmpfs"}
    /\ \E c \in CycleParams :
           last = Idle @@ [step |-> 0, cycle |-> c, osOk |-> TRUE, rmOk |-> TRUE,
                           startMounts |-> mounts]
    /\ SizesAtRest
    /\ LedgerAtRest
    /\ EnvAtRest
    /\ RunningAtRest

NextCycle ==
    \/ CycleStage
    \/ CyclePublish
    \/ CycleUnpublish
    \/ CycleUnstage

SpecCycle == InitCycle /\ [][NextCycle]_vars

----------------------------------------------------------------------------
(* NodeGetInfo in every environment the node service can be started in    *)

InfoCall ==
    /\ last = Idle
    /\ LET out == NodeGetInfo(environ) IN
       last' = [Idle EXCEPT !.op = "NodeGetInfo", !.code = out.code] @@
               [MaxVolumesPerNode |-> out.MaxVolumesPerNode, topology |-> out.topology,
                reads |-> out.reads]
    /\ UNCHANGED <<nodeVars, sizeVars, ledgerVars, environ, running>>

InitInfo ==
    /\ mounts = <<>>
    /\ files = [p \in AllPaths |-> "none"]
    /\ byId = {}
    /\ blockDevs = {RootDev}
    /\ devfs = "devtmpfs"
    /\ last = Idle
    /\ SizesAtRest
    /\ LedgerAtRest
    /\ environ \in Environments
    /\ RunningAtRest

NextInfo ==
    \/ InfoCall
    \/ Return

SpecInfo == InitInfo /\ [][NextInfo]_vars

----------------------------------------------------------------------------
(* Vocabulary of the properties.  These read the record of the call in     *)
(* last and the host state; none of them uses a handler's definition.      *)

StagingOf == last.req.staging

TargetOf == last.req.target

ReqDisk == last.req.pubCtx.diskUUID

HasDiskID == ReqDisk # Absent

(* the prefixed entry of the request's disk is in /dev/disk/by-id *)
DiskAttached == (blockPrefix \o ReqDisk) \in byId

ReqDev == RealDevOf(ReqDisk)

DeviceResolves == ReqDev \in blockDevs

HasOpt(m, o) == \E j \in 1..Len(m.Opts) : m.Opts[j] = o

AccessOption == IF last.req.ro THEN "ro" ELSE "rw"

(* the positions of the records of a mount table whose device token is dev *)
TokenMounts(mnts, dev) == {i \in 1..Len(mnts) : mnts[i].Device = dev}

(* the positions of the mounts of a device: by device token, or by source  *)
(* under the devtmpfs placeholder                                          *)
DeviceMounts(mnts, dev) ==
    {i \in 1..Len(mnts) :
        \/ mnts[i].Device = dev
        \/ (mnts[i].Device = "devtmpfs" /\ mnts[i].Source = dev)}

MountsAt(mnts, idx, path) == {i \in idx : mnts[i].Path = path}

MountsUnchanged == mounts = last.preMounts

HostUnchanged == mounts = last.preMounts /\ files = last.preFiles

NoCommand == last.calls = <<>>

IsStage(kind) == last.op = "NodeStageVolume" /\ last.req.kind = kind

IsPublish(kind) == last.op = "NodePublishVolume" /\ last.req.kind = kind

(* a mount-capability Stage call that passes every check before the mount  *)
(* table is read                                                           *)
StageMountReady ==
    /\ IsStage("mount")
    /\ StagingOf # ""
    /\ last.preFiles[StagingOf] = "dir"
    /\ HasDiskID /\ DiskAttached /\ DeviceResolves

----------------------------------------------------------------------------
(* C1: a mount-capability NodeStageVolume repeated at once with identical  *)
(* parameters, after the first call returned success, returns success      *)
(* again, runs no mount or format command, leaves the mount table as it    *)
(* was, and the device has exactly one mount at the staging target.        *)
C1_StageTwice ==
    (IsStage("mount") /\ last.attempt >= 2 /\ last.prevCode = "OK")
        => /\ last.code = "OK"
           /\ NoCommand
           /\ MountsUnchanged
           /\ Cardinality(MountsAt(mounts, TokenMounts(mounts, ReqDev), StagingOf)) = 1

(* The repeated Stage does hold for requests whose mount flags do not ask  *)
(* for "ro" while the access mode is read-write.                           *)
C1_StageTwiceNoRoFlag ==
    (IsStage("mount") /\ last.attempt >= 2 /\ last.prevCode = "OK"
        /\ (last.req.ro \/ ~HasOpt([Opts |-> last.req.flags], "ro")))
        => /\ last.code = "OK"
           /\ NoCommand
           /\ MountsUnchanged
           /\ Cardinality(MountsAt(mounts, TokenMounts(mounts, ReqDev), StagingOf)) = 1

----------------------------------------------------------------------------
(* C2: a mount-capability NodeStageVolume on a device that has a mount at  *)
(* the staging target whose options lack the requested access option       *)
(* ("ro" for a read-only request, "rw" otherwise) fails with AlreadyExists *)
(* and leaves the mount table unchanged.                                   *)
StagedWithOtherAccess ==
    \E i \in MountsAt(last.preMounts, TokenMounts(last.preMounts, ReqDev), StagingOf) :
        ~HasOpt(last.preMounts[i], AccessOption)

C2_StageAccessConflict ==
    (StageMountReady /\ StagedWithOtherAccess)
        => /\ last.code = "AlreadyExists"
           /\ NoCommand
           /\ HostUnchanged

C2_Witness ==
    /\ StageMountReady /\ StagedWithOtherAccess
    /\ last.code = "AlreadyExists"
    /\ Len(mounts) >= 1

----------------------------------------------------------------------------
(* C3: a mount-capability NodeStageVolume on a device that has mounts,     *)
(* none of them at the staging target, fails with Internal and runs no     *)
(* mount or format command; and whenever Stage runs a mount or format      *)
(* command on a device, the mount table it started from had no mount of    *)
(* that device.                                                            *)
MountedElsewhereOnly ==
    /\ TokenMounts(last.preMounts, ReqDev) # {}
    /\ MountsAt(last.preMounts, TokenMounts(last.preMounts, ReqDev), StagingOf) = {}

----------------------------------------------------------------------------
(* C4: on a fresh stage (the device has no mount) a read-only request runs *)
(* exactly one command, Mount of the device at the staging target with     *)
(* "ro" appended to the requested flags, and a read-write request runs     *)
(* exactly one command, FormatAndMount with the capability's file system   *)
(* type and flags; no read-only Stage request ever runs FormatAndMount.    *)
FreshStage == StageMountReady /\ TokenMounts(last.preMounts, ReqDev) = {}

ExpectedStageCommand ==
    [cmd |-> IF last.req.ro THEN "Mount" ELSE "FormatAndMount",
     source |-> devDiskID \o "/" \o blockPrefix \o ReqDisk,
     target |-> StagingOf,
     fsType |-> "ext4",
     flags |-> IF last.req.ro THEN last.req.flags \o <<"ro">> ELSE last.req.flags]

C4_FreshStageCommand ==
    /\ FreshStage => last.calls = <<ExpectedStageCommand>>
    /\ (FreshStage /\ last.code = "OK")
           => /\ Len(mounts) = Len(last.preMounts) + 1
              /\ mounts[Len(mounts)].Path = StagingOf
              /\ mounts[Len(mounts)].Device = ReqDev
              /\ last.req.ro => HasOpt(mounts[Len(mounts)], "ro")
    /\ (last.op = "NodeStageVolume" /\ last.req.ro)
           => \A c \in 1..Len(last.calls) : last.calls[c].cmd # "FormatAndMount"

C4_Witness ==
    /\ FreshStage /\ last.req.ro /\ last.code = "OK"
    /\ last.calls = <<ExpectedStageCommand>>
    /\ last.calls[1].cmd = "Mount"

----------------------------------------------------------------------------
(* C5: NodeStageVolume with a file-share capability returns success for    *)
(* every request, whatever the publish context, the staging path and the   *)
(* attachment of any disk, and leaves the mount table and the files        *)
(* unchanged.                                                              *)
C5_StageFileNoop ==
    IsStage("file") => (last.code = "OK" /\ NoCommand /\ HostUnchanged)

C5_Witness ==
    /\ IsStage("file") /\ last.code = "OK"
    /\ StagingOf = ""
    /\ last.req.pubCtx = NoCtx
    /\ byId = {}

----------------------------------------------------------------------------
(* C6: NodeStageVolume with a raw-block capability looks up the disk id,   *)
(* checks the attachment and resolves the device as the mount path does,   *)
(* then returns success; no block-capability Stage call, successful or     *)
(* not, changes the mount table or runs a mount or format command.         *)
C6_StageBlockNoMount ==
    IsStage("block")
        => /\ NoCommand
           /\ HostUnchanged
           /\ last.code = IF ~HasDiskID THEN "InvalidArgument"
                          ELSE IF ~DiskAttached THEN "NotFound"
                          ELSE IF ~DeviceResolves THEN "Internal"
                          ELSE "OK"

C6_Witness ==
    /\ IsStage("block") /\ last.code = "OK"
    /\ HasDiskID /\ DiskAttached /\ DeviceResolves
    /\ TokenMounts(mounts, ReqDev) = {}

----------------------------------------------------------------------------
(* C7: a mount-capability NodeStageVolume whose staging target path does   *)
(* not exist or is not a directory fails with FailedPrecondition, whether  *)
(* or not the disk is attached, and mounts nothing.                        *)
StagingNotADir == StagingOf # "" /\ last.preFiles[StagingOf] # "dir"

C7_StagingDirRequired ==
    (IsStage("mount") /\ StagingNotADir)
        => (last.code = "FailedPrecondition" /\ NoCommand /\ HostUnchanged)

C7_Witness ==
    /\ IsStage("mount") /\ StagingNotADir
    /\ last.preFiles[StagingOf] = "file"
    /\ HasDiskID /\ ~DiskAttached
    /\ last.code = "FailedPrecondition"

----------------------------------------------------------------------------
(* C8: verifyVolumeAttached answers NotFound for every disk id whose       *)
(* prefixed entry is not in the by-id directory; NodeStageVolume and       *)
(* NodePublishVolume for the mount and block capabilities, once the checks *)
(* made before it pass, then fail with NotFound and change no mount.       *)
ChecksBeforeAttachmentPass ==
    /\ HasDiskID
    /\ \/ IsStage("block")
       \/ IsStage("mount") /\ StagingOf # "" /\ last.preFiles[StagingOf] = "dir"
       \/ (IsPublish("mount") \/ IsPublish("block")) /\ StagingOf # ""

C8_NotAttachedNotFound ==
    /\ \A id \in DiskIDs :
           (blockPrefix \o id) \notin byId => verifyVolumeAttached(id).code = "NotFound"
    /\ (ChecksBeforeAttachmentPass /\ ~DiskAttached)
           => (last.code = "NotFound" /\ NoCommand /\ HostUnchanged)

(* the disk is on the host under another by-id name only *)
C8_Witness ==
    /\ ChecksBeforeAttachmentPass /\ ~DiskAttached
    /\ IsPublish("mount")
    /\ ("scsi-3" \o ReqDisk) \in byId
    /\ last.code = "NotFound"

----------------------------------------------------------------------------
(* C9 as stated: a block-capability NodePublishVolume with readOnly set    *)
(* fails with InvalidArgument whatever the state of the device.            *)
C9_BlockReadOnlyAlwaysInvalid ==
    (IsPublish("block") /\ last.req.ro) => last.code = "InvalidArgument"

(* C9 as amended: a block-capability NodePublishVolume with readOnly set   *)
(* never succeeds and never mounts; it fails with the error of the first   *)
(* check that fails, and with InvalidArgument whenever the staging path is *)
(* set, the disk is attached and resolves and the target is not a          *)
(* directory, whatever mounts the device has.                              *)
C9_BlockReadOnlyRejected ==
    (IsPublish("block") /\ last.req.ro)
        => /\ NoCommand
           /\ MountsUnchanged
           /\ last.code = IF StagingOf = "" THEN "FailedPrecondition"
                          ELSE IF ~HasDiskID THEN "InvalidArgument"
                          ELSE IF ~DiskAttached THEN "NotFound"
                          ELSE IF ~DeviceResolves THEN "Internal"
                          ELSE IF last.preFiles[TargetOf] = "dir" THEN "Internal"
                          ELSE "InvalidArgument"

C9_Witness ==
    /\ IsPublish("block") /\ last.req.ro
    /\ StagingOf # "" /\ HasDiskID /\ DiskAttached /\ DeviceResolves
    /\ Cardinality(DeviceMounts(mounts, ReqDev)) = 2
    /\ last.code = "InvalidArgument"

----------------------------------------------------------------------------
(* C10 as stated: NodePublishVolume (mount or block capability) on a       *)
(* device with two mounts, neither at the publish target, fails with       *)
(* Internal.                                                               *)
PublishReachesMountTable ==
    /\ StagingOf # "" /\ HasDiskID /\ DiskAttached /\ DeviceResolves
    /\ \/ IsPublish("block") /\ ~last.req.ro /\ last.preFiles[TargetOf] # "dir"
       \/ IsPublish("mount") /\ last.preFiles[TargetOf] # "file"
                             /\ last.preFiles[StagingOf] = "dir"

TwoMountsNoneAtTarget ==
    /\ Cardinality(DeviceMounts(last.preMounts, ReqDev)) = 2
    /\ MountsAt(last.preMounts, DeviceMounts(last.preMounts, ReqDev), TargetOf) = {}

C10_TwoMountsInternal ==
    (PublishReachesMountTable /\ TwoMountsNoneAtTarget) => last.code = "Internal"

(* C10 as amended: on such a device the block capability fails with        *)
(* AlreadyExists and mounts nothing; the mount capability bind-mounts the  *)
(* staging target at the target and succeeds, and fails with Internal only *)
(* when that bind mount fails, the mount table then being unchanged.       *)
C10_TwoMounts ==
    (PublishReachesMountTable /\ TwoMountsNoneAtTarget)
        => IF last.req.kind = "block"
           THEN last.code = "AlreadyExists" /\ NoCommand /\ MountsUnchanged
           ELSE /\ Len(last.calls) = 1
                /\ last.calls[1].cmd = "BindMount"
                /\ last.calls[1].source = StagingOf
                /\ last.calls[1].target = TargetOf
                /\ \/ /\ last.code = "OK"
                      /\ Len(mounts) = Len(last.preMounts) + 1
                      /\ SubSeq(mounts, 1, Len(last.preMounts)) = last.preMounts
                      /\ mounts[Len(mounts)].Path = TargetOf
                   \/ last.code = "Internal" /\ MountsUnchanged

C10_Witness ==
    /\ PublishReachesMountTable /\ TwoMountsNoneAtTarget
    /\ IsPublish("mount")
    /\ last.code = "OK"
    /\ Cardinality(DeviceMounts(mounts, ReqDev)) = 3

----------------------------------------------------------------------------
(* C11: a mount-capability NodePublishVolume that reaches the check of the *)
(* staging target (staging path set, disk attached and resolved, target    *)
(* path not a file) fails with FailedPrecondition, runs no bind mount and  *)
(* leaves the mount table unchanged when the staging target is not an      *)
(* existing directory, or when the device has no mount.                    *)
PublishMountReady ==
    /\ IsPublish("mount")
    /\ StagingOf # "" /\ HasDiskID /\ DiskAttached /\ DeviceResolves
    /\ last.preFiles[TargetOf] # "file"

NotStaged ==
    \/ last.preFiles[StagingOf] # "dir"
    \/ DeviceMounts(last.preMounts, ReqDev) = {}

C11_PublishNotStaged ==
    (PublishMountReady /\ NotStaged)
        => (last.code = "FailedPrecondition" /\ NoCommand /\ MountsUnchanged)

(* the staging directory is there, the device is mounted nowhere *)
C11_Witness ==
    /\ PublishMountReady
    /\ last.preFiles[StagingOf] = "dir"
    /\ DeviceMounts(last.preMounts, ReqDev) = {}
    /\ last.code = "FailedPrecondition"
    /\ files[TargetOf] = "dir"

----------------------------------------------------------------------------
(* C12: a mount-capability NodePublishVolume on a device that has a mount  *)
(* at the target returns success without adding a mount when that mount's  *)
(* options contain the requested access option, and fails with             *)
(* AlreadyExists when they do not; and a Publish repeated at once with     *)
(* identical parameters, after the first call returned success, returns    *)
(* success again and the device has exactly one mount at the target.       *)
PublishMountStaged == PublishMountReady /\ last.preFiles[StagingOf] = "dir"

PublishedAtTarget ==
    MountsAt(last.preMounts, DeviceMounts(last.preMounts, ReqDev), TargetOf)

(* the device is mounted at the staging target *)
VolumeStaged == MountsAt(last.preMounts, TokenMounts(last.preMounts, ReqDev), StagingOf) # {}

C12_PublishMountIdempotent ==
    /\ (PublishMountStaged /\ PublishedAtTarget # {}
            /\ \A i \in PublishedAtTarget : HasOpt(last.preMounts[i], AccessOption))
           => (last.code = "OK" /\ NoCommand /\ MountsUnchanged)
    /\ (PublishMountStaged /\ PublishedAtTarget # {}
            /\ \A i \in PublishedAtTarget : ~HasOpt(last.preMounts[i], AccessOption))
           => (last.code = "AlreadyExists" /\ NoCommand /\ MountsUnchanged)
    /\ (IsPublish("mount") /\ VolumeStaged /\ last.attempt >= 2 /\ last.prevCode = "OK")
           => /\ last.code = "OK"
              /\ Cardinality(MountsAt(mounts, DeviceMounts(mounts, ReqDev), TargetOf)) = 1

(* The mount-capability Publish is idempotent for every request whose      *)
(* mount flags do not ask for "ro" while readonly is not set.              *)
C12_PublishTwiceNoRoFlag ==
    /\ (PublishMountStaged /\ PublishedAtTarget # {}
            /\ \A i \in PublishedAtTarget : HasOpt(last.preMounts[i], AccessOption))
           => (last.code = "OK" /\ NoCommand /\ MountsUnchanged)
    /\ (PublishMountStaged /\ PublishedAtTarget # {}
            /\ \A i \in PublishedAtTarget : ~HasOpt(last.preMounts[i], AccessOption))
           => (last.code = "AlreadyExists" /\ NoCommand /\ MountsUnchanged)
    /\ (IsPublish("mount") /\ VolumeStaged /\ last.attempt >= 2 /\ last.prevCode = "OK"
            /\ (last.req.ro \/ ~HasOpt([Opts |-> last.req.flags], "ro")))
           => /\ last.code = "OK"
              /\ Cardinality(MountsAt(mounts, DeviceMounts(mounts, ReqDev), TargetOf)) = 1

----------------------------------------------------------------------------
(* C13: a block-capability NodePublishVolume without readonly, once the    *)
(* checks before the mount table pass, decides by the number of mounts of  *)
(* the device: none -> one bind mount of the device's by-id path at the    *)
(* target, and success when the command succeeds; exactly one, at the      *)
(* target -> success with no new mount; exactly one, at another path ->    *)
(* Internal; more than one -> AlreadyExists.                               *)
PublishBlockReady ==
    /\ IsPublish("block") /\ ~last.req.ro
    /\ StagingOf # "" /\ HasDiskID /\ DiskAttached /\ DeviceResolves
    /\ last.preFiles[TargetOf] # "dir"

(* the positions of the mounts of a device on the host: by device token,   *)
(* or by source under either token the host gives bind-mounted device      *)
(* nodes                                                                   *)
HostMountsOf(mnts, dev) ==
    {i \in 1..Len(mnts) :
        \/ mnts[i].Device = dev
        \/ (mnts[i].Device \in {"udev", "devtmpfs"} /\ mnts[i].Source = dev)}

BlockBindCommand ==
    [cmd |-> "BindMount", source |-> devDiskID \o "/" \o blockPrefix \o ReqDisk,
     target |-> TargetOf, fsType |-> "", flags |-> <<>>]

(* the decision of the block branch on the mounts at the positions idx *)
BlockDecision(idx) ==
    IF idx = {}
    THEN /\ last.calls = <<BlockBindCommand>>
         /\ \/ /\ last.code = "OK"
               /\ Len(mounts) = Len(last.preMounts) + 1
               /\ SubSeq(mounts, 1, Len(last.preMounts)) = last.preMounts
               /\ mounts[Len(mounts)].Path = TargetOf
               /\ mounts[Len(mounts)].Source = ReqDev
            \/ last.code = "Internal" /\ MountsUnchanged
    ELSE /\ NoCommand
         /\ MountsUnchanged
         /\ last.code = IF Cardinality(idx) > 1 THEN "AlreadyExists"
                        ELSE IF MountsAt(last.preMounts, idx, TargetOf) = {} THEN "Internal"
                        ELSE "OK"

C13_BlockByMountCount ==
    PublishBlockReady => BlockDecision(HostMountsOf(last.preMounts, ReqDev))

(* The block branch decides so on the mounts its filter returns: a mount   *)
(* under the udev token is not among them.                                 *)
C13_BlockByFilteredCount ==
    PublishBlockReady => BlockDecision(DeviceMounts(last.preMounts, ReqDev))

----------------------------------------------------------------------------
(* C14: starting from a device with no mounts, after any sequence of       *)
(* block-capability NodePublishVolume and NodeUnpublishVolume calls, one   *)
(* at a time, the device is mounted in at most one place, and after a      *)
(* Publish that succeeded that place is the Publish's target.              *)
C14_BlockMountedOnce ==
    \A id \in DiskIDs :
        /\ Cardinality({mounts[i].Path : i \in HostMountsOf(mounts, RealDevOf(id))}) <= 1
        /\ (IsPublish("block") /\ last.code = "OK" /\ ReqDisk = id)
               => \A i \in HostMountsOf(mounts, RealDevOf(id)) : mounts[i].Path = TargetOf

(* The device is mounted in at most one place on a host whose token for    *)
(* bind-mounted device nodes is devtmpfs.                                  *)
C14_BlockMountedOnceDevtmpfs ==
    devfs = "devtmpfs" => C14_BlockMountedOnce

----------------------------------------------------------------------------
(* C15: a file-share NodePublishVolume with a valid target (not a file,    *)
(* nothing mounted at it) and a share endpoint in the publish context      *)
(* mounts the share and succeeds, whether or not a staging target path is  *)
(* supplied and whether or not anything was staged.                        *)
ShareEndpoint == last.req.pubCtx.nfs

(* the positions of the mounts at the target before the call *)
AtTarget == MountsAt(last.preMounts, 1..Len(last.preMounts), TargetOf)

FileMountCommand ==
    [cmd |-> "Mount", source |-> ShareEndpoint, target |-> TargetOf, fsType |-> "nfs4",
     flags |-> (IF last.req.ro THEN last.req.flags \o <<"ro">> ELSE last.req.flags)
                   \o (IF last.req.guest THEN <<"hard">> ELSE <<>>)]

(* the share is mounted at the target, or the mount command failed *)
ShareMounted ==
    /\ last.calls = <<FileMountCommand>>
    /\ \/ /\ last.code = "OK"
          /\ Len(mounts) = Len(last.preMounts) + 1
          /\ SubSeq(mounts, 1, Len(last.preMounts)) = last.preMounts
          /\ mounts[Len(mounts)].Path = TargetOf
          /\ mounts[Len(mounts)].Device = ShareEndpoint
       \/ last.code = "Internal" /\ MountsUnchanged

C15_FileNoStaging ==
    (IsPublish("file") /\ last.preFiles[TargetOf] # "file" /\ AtTarget = {}
        /\ ShareEndpoint # Absent)
        => ShareMounted

(* The file-share Publish does so whenever a staging target path is        *)
(* supplied, staged or not.                                                *)
C15_FileStagingPathSet ==
    (IsPublish("file") /\ last.preFiles[TargetOf] # "file" /\ AtTarget = {}
        /\ ShareEndpoint # Absent /\ StagingOf # "")
        => ShareMounted

----------------------------------------------------------------------------
(* C16: a file-share NodePublishVolume that reaches the mount table        *)
(* (staging path set, target not a file): a target already in the mount    *)
(* table with the requested access option gives success without mounting,  *)
(* also when the share endpoint is absent from the publish context; with   *)
(* another option, AlreadyExists; a target not in the mount table gets the *)
(* share endpoint mounted at it, and Internal without a mount command when *)
(* the endpoint is absent.                                                 *)
PublishFileReady ==
    IsPublish("file") /\ StagingOf # "" /\ last.preFiles[TargetOf] # "file"

C16_FilePublish ==
    /\ (PublishFileReady /\ AtTarget # {}
            /\ \A i \in AtTarget : HasOpt(last.preMounts[i], AccessOption))
           => (last.code = "OK" /\ NoCommand /\ MountsUnchanged)
    /\ (PublishFileReady /\ AtTarget # {}
            /\ \A i \in AtTarget : ~HasOpt(last.preMounts[i], AccessOption))
           => (last.code = "AlreadyExists" /\ NoCommand /\ MountsUnchanged)
    /\ (PublishFileReady /\ AtTarget = {} /\ ShareEndpoint # Absent) => ShareMounted
    /\ (PublishFileReady /\ AtTarget = {} /\ ShareEndpoint = Absent)
           => (last.code = "Internal" /\ NoCommand /\ MountsUnchanged)

(* already mounted with the requested option, no endpoint in the context *)
C16_Witness ==
    /\ PublishFileReady /\ AtTarget # {}
    /\ \A i \in AtTarget : HasOpt(last.preMounts[i], AccessOption)
    /\ ShareEndpoint = Absent
    /\ last.code = "OK"
    /\ \E i \in AtTarget : last.preMounts[i].Type = "nfs4"

----------------------------------------------------------------------------
(* C17: NodeUnpublishVolume on a target path that exists and is not in the *)
(* mount table returns success and removes the path, so the target path    *)
(* does not exist after the call.                                          *)
IsUnpublish == last.op = "NodeUnpublishVolume"

C17_LeftoverTargetRemoved ==
    (IsUnpublish /\ last.preFiles[TargetOf] # "none" /\ AtTarget = {})
        => (last.code = "OK" /\ files[TargetOf] = "none")

(* Such a call returns success; it runs no command and leaves the path.    *)
C17_LeftoverTargetSuccess ==
    (IsUnpublish /\ last.preFiles[TargetOf] # "none" /\ AtTarget = {})
        => (last.code = "OK" /\ last.calls = <<>> /\ HostUnchanged)

----------------------------------------------------------------------------
(* C18: NodeUnpublishVolume on a mounted target whose mount is a file      *)
(* share or has a device that resolves: the first command is the unmount   *)
(* of the target, the removal of the path follows it and only when the     *)
(* unmount succeeded; a failed unmount gives Internal and leaves the path  *)
(* and the mount; a failed removal after the unmount gives Internal; and   *)
(* whenever the call returns success the target is neither in the mount    *)
(* table nor on disk.                                                      *)
UnmountCommand ==
    [cmd |-> "Unmount", source |-> "", target |-> TargetOf, fsType |-> "", flags |-> <<>>]

RemoveCommand ==
    [cmd |-> "Remove", source |-> "", target |-> TargetOf, fsType |-> "", flags |-> <<>>]

(* the first record at the target is a file share, or names a device node  *)
(* that is on the host                                                     *)
TargetMountResolves ==
    LET first == last.preMounts[CHOOSE i \in AtTarget : \A j \in AtTarget : i <= j]
    IN  \/ first.Type \in {"nfs", "nfs4"}
        \/ first.Device \in blockDevs
        \/ (first.Device \in {"udev", "devtmpfs"} /\ first.Source \in blockDevs)

UnpublishMountedTarget ==
    /\ IsUnpublish
    /\ last.preFiles[TargetOf] # "none"
    /\ AtTarget # {}
    /\ TargetMountResolves

(* the mount table is the one before the call less the last mount at the   *)
(* target                                                                  *)
TopMountGone ==
    LET top == CHOOSE i \in AtTarget : \A j \in AtTarget : j <= i
    IN  /\ Len(mounts) = Len(last.preMounts) - 1
        /\ \A i \in 1..Len(mounts) :
               mounts[i] = last.preMounts[IF i < top THEN i ELSE i + 1]

C18_UnmountThenRemove ==
    /\ UnpublishMountedTarget
           => /\ last.calls \in {<<UnmountCommand>>, <<UnmountCommand, RemoveCommand>>}
              /\ last.calls = <<UnmountCommand>>
                     => (last.code = "Internal" /\ HostUnchanged)
              /\ last.calls = <<UnmountCommand, RemoveCommand>>
                     => /\ TopMountGone
                        /\ files[TargetOf] # "none" => (last.code = "Internal" /\ files = last.preFiles)
                        /\ files[TargetOf] = "none" => last.code = "OK"
    /\ (IsUnpublish /\ last.preFiles[TargetOf] # "none" /\ AtTarget # {} /\ last.code = "OK")
           => /\ MountsAt(mounts, 1..Len(mounts), TargetOf) = {}
              /\ files[TargetOf] = "none"

C18_Witness ==
    /\ UnpublishMountedTarget
    /\ last.calls = <<UnmountCommand, RemoveCommand>>
    /\ last.code = "OK"
    /\ files[TargetOf] = "none"
    /\ Len(mounts) >= 1

----------------------------------------------------------------------------
(* C19: when nothing is mounted at the path, NodeUnpublishVolume (target)  *)
(* and NodeUnstageVolume (staging target) return success and remove any    *)
(* leftover path artifact, so the path does not exist after the call.      *)
IsUnstage == last.op = "NodeUnstageVolume"

NothingMountedAt(path) == MountsAt(last.preMounts, 1..Len(last.preMounts), path) = {}

C19_NilDeviceCleanup ==
    /\ (IsUnpublish /\ NothingMountedAt(TargetOf))
           => (last.code = "OK" /\ files[TargetOf] = "none")
    /\ (IsUnstage /\ NothingMountedAt(StagingOf))
           => (last.code = "OK" /\ files[StagingOf] = "none")

(* Both handlers return success when nothing is mounted at the path; they  *)
(* run no command and leave the host as it was.                            *)
C19_NilDeviceSuccess ==
    /\ (IsUnpublish /\ NothingMountedAt(TargetOf))
           => (last.code = "OK" /\ last.calls = <<>> /\ HostUnchanged)
    /\ (IsUnstage /\ NothingMountedAt(StagingOf))
           => (last.code = "OK" /\ last.calls = <<>> /\ HostUnchanged)

----------------------------------------------------------------------------
(* C20: NodeUnpublishVolume on a target path that does not exist returns   *)
(* success, runs no command and changes nothing; and an Unpublish repeated *)
(* at once, after the first call returned success, returns success and     *)
(* leaves the mount table and the files unchanged.                         *)
C20_UnpublishIdempotent ==
    /\ (IsUnpublish /\ last.preFiles[TargetOf] = "none")
           => (last.code = "OK" /\ last.calls = <<>> /\ HostUnchanged)
    /\ (IsUnpublish /\ last.attempt >= 2 /\ last.prevCode = "OK")
           => (last.code = "OK" /\ last.calls = <<>> /\ HostUnchanged)

(* the first call unmounted the target and removed the path *)
C20_Witness ==
    /\ IsUnpublish /\ last.attempt = 2 /\ last.prevCode = "OK"
    /\ last.prevCalls = <<UnmountCommand, RemoveCommand>>
    /\ last.preFiles[TargetOf] = "none"
    /\ last.code = "OK"
    /\ HostUnchanged

----------------------------------------------------------------------------
(* C21: NodeUnstageVolume on a staging target with no mount at it returns  *)
(* success, runs no command and leaves the mount table unchanged, whether  *)
(* or not the staging directory exists and whatever disks are attached.    *)
C21_UnstageNeverStaged ==
    (IsUnstage /\ NothingMountedAt(StagingOf))
        => (last.code = "OK" /\ last.calls = <<>> /\ MountsUnchanged)

(* the staging directory is missing and the table holds other mounts *)
C21_Witness ==
    /\ IsUnstage /\ NothingMountedAt(StagingOf)
    /\ last.preFiles[StagingOf] = "none"
    /\ Len(mounts) >= 1
    /\ last.code = "OK"

----------------------------------------------------------------------------
(* C22: NodeUnstageVolume on a staging target that is mounted, whose       *)
(* device node is on the host and has no other mount, runs the unmount of  *)
(* the staging target and returns success, after which the staging target  *)
(* is not in the mount table (Internal and nothing changed when the        *)
(* unmount command fails); with nothing mounted at the staging path (file  *)
(* shares) it returns success without any unmount.                         *)
AtStaging == MountsAt(last.preMounts, 1..Len(last.preMounts), StagingOf)

StagedOnlyThere ==
    /\ IsUnstage
    /\ Cardinality(AtStaging) = 1
    /\ \A i \in AtStaging :
           /\ last.preMounts[i].Device \in blockDevs
           /\ HostMountsOf(last.preMounts, last.preMounts[i].Device) = {i}

UnstageCommand ==
    [cmd |-> "Unmount", source |-> "", target |-> StagingOf, fsType |-> "", flags |-> <<>>]

C22_UnstageUnmounts ==
    /\ StagedOnlyThere
           => /\ last.calls = <<UnstageCommand>>
              /\ \/ /\ last.code = "OK"
                    /\ MountsAt(mounts, 1..Len(mounts), StagingOf) = {}
                    /\ Len(mounts) = Len(last.preMounts) - 1
                    /\ \A i \in 1..Len(mounts) : \E j \in 1..Len(last.preMounts) :
                           mounts[i] = last.preMounts[j]
                    /\ files = last.preFiles
                 \/ last.code = "Internal" /\ HostUnchanged
    /\ (IsUnstage /\ AtStaging = {})
           => (last.code = "OK" /\ last.calls = <<>> /\ HostUnchanged)

C22_Witness ==
    /\ StagedOnlyThere
    /\ last.calls = <<UnstageCommand>>
    /\ last.code = "OK"
    /\ MountsAt(mounts, 1..Len(mounts), StagingOf) = {}

----------------------------------------------------------------------------
(* Vocabulary of the NodeExpandVolume properties *)

IsExpand == last.op = "NodeExpandVolume"

RequiredOf == last.req.capacityRange.RequiredBytes

(* the records of the mount table at the volume path *)
AtVolumePath == MountsAt(last.preMounts, 1..Len(last.preMounts), last.req.volumePath)

(* the request passed validation and the volume path is mounted from a     *)
(* device node of the host                                                 *)
ExpandReady ==
    /\ IsExpand
    /\ last.req.volumeID # ""
    /\ last.req.capacityRange.present
    /\ RequiredOf >= 0 /\ last.req.capacityRange.LimitBytes >= 0
    /\ AtVolumePath # {}
    /\ \A i \in AtVolumePath : last.preMounts[i].Device \in blockDevs

ExpandDevice == last.preMounts[CHOOSE i \in AtVolumePath : TRUE].Device

(* the device path is /dev/<name> *)
ThreeSegments == \E name \in PathSegments \ {""} : ExpandDevice = "/dev/" \o name

CallsOf(cmd) == {i \in 1..Len(last.calls) : last.calls[i].cmd = cmd}

(* the flag is on and the size read before the resize is below the request *)
RescanDue ==
    /\ ExpandReady
    /\ last.fss /\ last.fault # "getsize"
    /\ last.preDevSize < RequiredOf

----------------------------------------------------------------------------
(* C23: in a NodeExpandVolume call that got as far as the feature flag, a  *)
(* rescan is triggered exactly when the flag is on and the block size read *)
(* before the resize is below the requested bytes; the rescan write comes  *)
(* before the resize, and when the rescan fails (the device path is not    *)
(* /dev/<name>, the rescan file is missing or the write fails) the call    *)
(* returns Internal and no resize has run.                                 *)
C23_RescanWhenSmaller ==
    ExpandReady =>
        /\ (~RescanDue) => CallsOf("WriteFile") = {}
        /\ (RescanDue /\ ThreeSegments /\ last.fault # "rescanpath")
               => /\ Cardinality(CallsOf("WriteFile")) = 1
                  /\ \A i \in CallsOf("WriteFile") :
                         /\ last.calls[i].target
                                = "/sys/block/" \o Split(ExpandDevice)[3] \o "/device/rescan"
                         /\ \A j \in CallsOf("resize") : i < j
        /\ (RescanDue /\ (~ThreeSegments \/ last.fault \in {"rescanpath", "rescan"}))
               => (last.code = "Internal" /\ CallsOf("resize") = {})

(* a rescan that is followed by the resize *)
C23_Witness ==
    /\ RescanDue /\ ThreeSegments
    /\ CallsOf("WriteFile") # {} /\ CallsOf("resize") # {}
    /\ last.code = "OK"

(* the rescan is refused for a device path with four segments *)
C23_WitnessIllegalPath ==
    /\ RescanDue /\ ~ThreeSegments
    /\ last.code = "Internal"

----------------------------------------------------------------------------
(* C24: NodeExpandVolume returns success only when the block size after    *)
(* the resize is at least the requested bytes, and Internal when the size  *)
(* read after the resize is still smaller; it runs the resize at most      *)
(* once; on success the capacity of the response is the requested bytes    *)
(* rounded up to a whole number of MiB, so never below the request.        *)
C24_ExpandSuccess ==
    /\ (IsExpand /\ last.code = "OK")
           => /\ devSize >= RequiredOf
              /\ last.capacity % MbInBytes = 0
              /\ last.capacity >= RequiredOf
              /\ last.capacity - RequiredOf < MbInBytes
    /\ (IsExpand /\ CallsOf("resize") # {} /\ last.fault = "none" /\ devSize < RequiredOf)
           => last.code = "Internal"
    /\ IsExpand => (Cardinality(CallsOf("resize")) <= 1 /\ Cardinality(CallsOf("WriteFile")) <= 1)

(* success on a request that is not a whole number of MiB *)
C24_Witness ==
    /\ IsExpand /\ last.code = "OK"
    /\ RequiredOf % MbInBytes # 0
    /\ last.capacity > RequiredOf

(* the disk did not grow enough: the resize ran and the call fails *)
C24_WitnessStillSmaller ==
    /\ IsExpand /\ CallsOf("resize") # {} /\ last.fault = "none"
    /\ devSize < RequiredOf
    /\ last.code = "Internal"

----------------------------------------------------------------------------
(* Vocabulary of the ledger properties *)

IsStore == last.op = "StoreRequestDetails"

IsGet == last.op = "GetRequestDetails"

HasEntry(objs, name) == \E o \in objs : o.Name = name

EntryOf(objs, name) == CHOOSE o \in objs : o.Name = name

(* the last call was a store that returned no error *)
StoreOk == IsStore /\ last.err = ""

(* ... on a name that had an entry *)
UpdateOk == StoreOk /\ HasEntry(last.pre, last.req.Name)

(* ... on a name that had none *)
CreateOk == StoreOk /\ ~HasEntry(last.pre, last.req.Name)

StoredTask == last.req.OperationDetails.TaskID

(* the operation details of the stored request *)
StoredDetails ==
    [TaskID |-> StoredTask, TaskStatus |-> last.req.OperationDetails.TaskStatus,
     Error |-> last.req.OperationDetails.Error]

OldEntry == EntryOf(last.pre, last.req.Name).Status

NewEntry == EntryOf(objects, last.req.Name).Status

OldList == OldEntry.LatestOperationDetails

NewList == NewEntry.LatestOperationDetails

InList(list, taskID) == \E i \in 1..Len(list) : list[i].TaskID = taskID

(* the place of a TaskID among the TaskIDs in the order of their first     *)
(* successful store                                                        *)
FirstStoredAt(name, taskID) ==
    CHOOSE i \in 1..Len(hist.order[name]) : hist.order[name][i] = taskID

(* all of a list but its last element *)
Front(list) == SubSeq(list, 1, Len(list) - 1)

(* a TaskID already in the list is overwritten where it is *)
OverwrittenInPlace ==
    (UpdateOk /\ InList(OldList, StoredTask))
        => \E i \in 1..Len(OldList) :
               /\ OldList[i].TaskID = StoredTask
               /\ NewList = [OldList EXCEPT ![i] = StoredDetails]

(* a TaskID not in the list is appended, the first entry leaving a full list *)
AppendedAtEnd ==
    (UpdateOk /\ ~InList(OldList, StoredTask))
        => /\ NewList[Len(NewList)] = StoredDetails
           /\ Front(NewList) = IF Len(OldList) = maxEntriesInLatestOperationDetails
                               THEN Tail(OldList) ELSE OldList

----------------------------------------------------------------------------
(* C25: a successful StoreRequestDetails on an existing entry overwrites   *)
(* in place the entry of LatestOperationDetails that has the TaskID of the *)
(* stored operation, leaving the length and the other entries as they      *)
(* were, and otherwise appends the operation at the end; the entries of    *)
(* LatestOperationDetails are in the order in which their TaskIDs were     *)
(* first stored.                                                           *)
C25_FirstStoredOrder ==
    /\ OverwrittenInPlace
    /\ AppendedAtEnd
    /\ \A n \in Names : HasEntry(objects, n) =>
           LET list == EntryOf(objects, n).Status.LatestOperationDetails IN
           \A i, j \in 1..Len(list) :
               i < j => FirstStoredAt(n, list[i].TaskID) < FirstStoredAt(n, list[j].TaskID)

(* C25, amended: ... and otherwise appends the operation at the end, so    *)
(* the entries that stay keep their order; a TaskID that was evicted and   *)
(* is stored again is appended as a new entry.                             *)
C25_OverwriteOrAppend ==
    /\ OverwrittenInPlace
    /\ AppendedAtEnd
    /\ UpdateOk =>
           \A i, j \in 1..Len(OldList) :
               (i < j /\ InList(NewList, OldList[i].TaskID) /\ InList(NewList, OldList[j].TaskID))
                   => \E k, l \in 1..Len(NewList) :
                          /\ k < l
                          /\ NewList[k].TaskID = OldList[i].TaskID
                          /\ NewList[l].TaskID = OldList[j].TaskID

(* an entry that is not the last one is overwritten with other details *)
C25_Witness ==
    /\ UpdateOk
    /\ \E i \in 1..Len(OldList) :
           /\ i < Len(OldList)
           /\ OldList[i].TaskID = StoredTask
           /\ OldList[i] # StoredDetails
           /\ NewList[i] = StoredDetails

(* an evicted TaskID is stored again *)
C25_WitnessStoredAgain ==
    /\ UpdateOk
    /\ ~InList(OldList, StoredTask)
    /\ Len(hist.order[last.req.Name]) > maxEntriesInLatestOperationDetails
    /\ FirstStoredAt(last.req.Name, StoredTask) = 1

----------------------------------------------------------------------------
(* C26: once an operation has been stored under a name, the length of its  *)
(* LatestOperationDetails is between 1 and 10; a store that appends to a   *)
(* list of 10 drops exactly the first entry and keeps the others in their  *)
(* order before the appended one.                                          *)
C26_LatestBounded ==
    /\ \A n \in Names : (HasEntry(objects, n) /\ hist.stored[n] # NoRequest) =>
           LET list == EntryOf(objects, n).Status.LatestOperationDetails IN
           1 <= Len(list) /\ Len(list) <= 10
    /\ (UpdateOk /\ ~InList(OldList, StoredTask) /\ Len(OldList) = 10)
           => NewList = Append(Tail(OldList), StoredDetails)

(* the eleventh TaskID has been appended *)
C26_Witness ==
    /\ UpdateOk /\ ~InList(OldList, StoredTask) /\ Len(OldList) = 10
    /\ Len(NewList) = 10
    /\ NewList[1] = OldList[2]
    /\ NewList[10] = StoredDetails

----------------------------------------------------------------------------
(* Vocabulary of the GetRequestDetails properties *)

(* the request of the latest successful store under the name read *)
LatestStored == hist.stored[last.req.Name]

GetOk == IsGet /\ last.err = ""

ReadEntry == EntryOf(last.pre, last.req.Name).Status

ReadList == ReadEntry.LatestOperationDetails

(* the volume fields of the details returned are those of the request *)
SameVolumeFields(details, request) ==
    /\ details.VolumeID = request.VolumeID
    /\ details.SnapshotID = request.SnapshotID
    /\ details.Capacity = request.Capacity

----------------------------------------------------------------------------
(* C27: a successful GetRequestDetails that follows a successful           *)
(* StoreRequestDetails(d) under the same name, with no store in between,   *)
(* returns d: its TaskID, status and error and its VolumeID, SnapshotID    *)
(* and Capacity, wherever in LatestOperationDetails d was put.             *)
C27_GetReturnsStored ==
    (GetOk /\ LatestStored # NoRequest) => last.details = LatestStored

(* C27, amended: ... returns d's VolumeID, SnapshotID and Capacity with    *)
(* the TaskID, status and error of the last entry of                       *)
(* LatestOperationDetails; these are d's when d was appended or overwrote  *)
(* the last entry, and those of another operation when d overwrote an      *)
(* earlier entry.                                                          *)
C27_GetReturnsLastEntry ==
    (GetOk /\ LatestStored # NoRequest)
        => /\ last.details.Name = last.req.Name
           /\ SameVolumeFields(last.details, LatestStored)
           /\ last.details.OperationDetails = ReadList[Len(ReadList)]
           /\ (ReadList[Len(ReadList)].TaskID = LatestStored.OperationDetails.TaskID)
                  => last.details = LatestStored

(* the read returns a TaskID other than the one stored last *)
C27_Witness ==
    /\ GetOk /\ LatestStored # NoRequest
    /\ last.details.OperationDetails.TaskID # LatestStored.OperationDetails.TaskID
    /\ SameVolumeFields(last.details, LatestStored)

----------------------------------------------------------------------------
(* C28: GetRequestDetails on an entry that a store has just created        *)
(* returns the single OperationDetails of that entry; on an entry whose    *)
(* LatestOperationDetails is empty it returns an error; on a name without  *)
(* an entry it returns the NotFound error of the API server; it never      *)
(* changes the instances on the API server.                                *)
JustCreated ==
    /\ IsGet /\ last.fault = "none"
    /\ HasEntry(last.pre, last.req.Name)
    /\ EntryOf(last.pre, last.req.Name).ResourceVersion = 1
    /\ LatestStored # NoRequest

C28_GetOutcomes ==
    /\ JustCreated
           => /\ last.err = ""
              /\ Len(ReadList) = 1
              /\ last.details.OperationDetails = ReadList[1]
              /\ last.details = LatestStored
    /\ (IsGet /\ HasEntry(last.pre, last.req.Name) /\ Len(ReadList) = 0)
           => (last.err # "" /\ last.details = NoRequest)
    /\ (IsGet /\ ~HasEntry(last.pre, last.req.Name) /\ last.fault = "none")
           => (last.err = "NotFound" /\ last.details = NoRequest)
    /\ IsGet => objects = last.pre

(* a read of an entry right after the store that created it *)
C28_Witness ==
    /\ JustCreated
    /\ last.err = ""
    /\ last.details = LatestStored

(* a read of an entry with an empty list *)
C28_WitnessEmptyList ==
    /\ IsGet /\ HasEntry(last.pre, last.req.Name) /\ Len(ReadList) = 0
    /\ last.fault = "none" /\ last.err # ""

(* a read of a name without an entry *)
C28_WitnessNotFound ==
    /\ IsGet /\ ~HasEntry(last.pre, last.req.Name)
    /\ last.err = "NotFound"

----------------------------------------------------------------------------
(* C29: FirstOperationDetails is set at creation to the stored operation;  *)
(* a later store replaces it with the stored operation exactly when its    *)
(* TaskID is empty or equal to the TaskID stored, and leaves it alone      *)
(* otherwise; once its TaskID is not empty that TaskID never changes, also *)
(* after the operation has left LatestOperationDetails, and it is the      *)
(* first non-empty TaskID ever stored under the name.                      *)
FirstNonEmptyTask(name) ==
    LET order == hist.order[name]
        at == {i \in 1..Len(order) : order[i] # ""}
    IN  IF at = {} THEN "" ELSE order[CHOOSE i \in at : \A j \in at : i <= j]

C29_FirstOperationKept ==
    /\ CreateOk => NewEntry.FirstOperationDetails = StoredDetails
    /\ UpdateOk =>
           /\ (OldEntry.FirstOperationDetails.TaskID \in {"", StoredTask})
                  => NewEntry.FirstOperationDetails = StoredDetails
           /\ (OldEntry.FirstOperationDetails.TaskID \notin {"", StoredTask})
                  => NewEntry.FirstOperationDetails = OldEntry.FirstOperationDetails
           /\ (OldEntry.FirstOperationDetails.TaskID # "")
                  => NewEntry.FirstOperationDetails.TaskID
                         = OldEntry.FirstOperationDetails.TaskID
    /\ \A n \in Names : HasEntry(objects, n) =>
           EntryOf(objects, n).Status.FirstOperationDetails.TaskID = FirstNonEmptyTask(n)

(* the first operation has left LatestOperationDetails and is still first *)
C29_Witness ==
    /\ UpdateOk
    /\ OldEntry.FirstOperationDetails.TaskID # ""
    /\ ~InList(NewList, NewEntry.FirstOperationDetails.TaskID)
    /\ NewEntry.FirstOperationDetails = OldEntry.FirstOperationDetails

(* an entry created with an empty TaskID gets its first operation replaced *)
C29_WitnessEmptyFirst ==
    /\ UpdateOk
    /\ OldEntry.FirstOperationDetails.TaskID = ""
    /\ InList(OldList, "")
    /\ StoredTask # ""
    /\ NewEntry.FirstOperationDetails = StoredDetails

----------------------------------------------------------------------------
(* Vocabulary of the properties of concurrent stores *)

(* the caller's call went as far as its write *)
Wrote(c) ==
    /\ inflight[c].pc = "done"
    /\ inflight[c].req # NoRequest
    /\ inflight[c].got.err \in {"", "NotFound"}

(* the resource version the caller's read saw, 0 for an absent entry *)
ReadVersion(c) ==
    IF inflight[c].got.err = "NotFound" THEN 0 ELSE inflight[c].got.instance.ResourceVersion

(* both calls are for one name and both read before either wrote *)
Raced(c, d) ==
    /\ c # d
    /\ Wrote(c) /\ Wrote(d)
    /\ inflight[c].req.Name = inflight[d].req.Name
    /\ ReadVersion(c) = ReadVersion(d)

DetailsOf(c) ==
    [TaskID |-> inflight[c].req.OperationDetails.TaskID,
     TaskStatus |-> inflight[c].req.OperationDetails.TaskStatus,
     Error |-> inflight[c].req.OperationDetails.Error]

----------------------------------------------------------------------------
(* C30: of two StoreRequestDetails calls for one name that both read       *)
(* before either writes, at most one returns success; when one does, the   *)
(* other's Create is refused with AlreadyExists or its Update with         *)
(* Conflict and that error is what it returns; the operation of a          *)
(* successful store stays in LatestOperationDetails, with its details      *)
(* until a later successful store of the same TaskID; a name never has     *)
(* more than one entry.                                                    *)
C30_OneWriterWins ==
    /\ \A c, d \in Callers : Raced(c, d) =>
           /\ ~(inflight[c].err = "" /\ inflight[d].err = "")
           /\ (inflight[c].err = "" /\ inflight[d].fault = "none")
                  => inflight[d].err = IF ReadVersion(d) = 0 THEN "AlreadyExists" ELSE "Conflict"
    /\ \A n \in Names :
           /\ Cardinality({o \in objects : o.Name = n}) <= 1
           /\ \A i \in 1..Len(hist.order[n]) :
                  /\ HasEntry(objects, n)
                  /\ InList(EntryOf(objects, n).Status.LatestOperationDetails, hist.order[n][i])
    /\ \A c \in Callers : (Wrote(c) /\ inflight[c].err = "") =>
           \/ \E i \in 1..Len(EntryOf(objects, inflight[c].req.Name).Status.LatestOperationDetails) :
                  EntryOf(objects, inflight[c].req.Name).Status.LatestOperationDetails[i]
                      = DetailsOf(c)
           \/ \E d \in Callers :
                  /\ Wrote(d) /\ inflight[d].err = ""
                  /\ inflight[d].wrote > inflight[c].wrote
                  /\ DetailsOf(d).TaskID = DetailsOf(c).TaskID

(* both calls read the same instance; one Update won, the other got Conflict *)
C30_Witness ==
    \E c, d \in Callers :
        /\ Raced(c, d)
        /\ ReadVersion(c) > 0
        /\ inflight[c].err = ""
        /\ inflight[d].err = "Conflict"
        /\ DetailsOf(c).TaskID # DetailsOf(d).TaskID

(* both calls found no entry; one Create won, the other got AlreadyExists *)
C30_WitnessCreate ==
    \E c, d \in Callers :
        /\ Raced(c, d)
        /\ ReadVersion(c) = 0
        /\ inflight[c].err = ""
        /\ inflight[d].err = "AlreadyExists"

----------------------------------------------------------------------------
(* the API calls of a finished StoreRequestDetails call by kind *)
ReadsOf(c) == {i \in 1..Len(inflight[c].calls) : inflight[c].calls[i] = "Get"}
WritesOf(c) == {i \in 1..Len(inflight[c].calls) : inflight[c].calls[i] \in {"Create", "Update"}}

(* C31 as stated: every StoreRequestDetails call performs exactly one read *)
(* and at most one write, and a call that returns an error has changed no  *)
(* instance.                                                               *)
C31_OneReadEachCall ==
    \A c \in Callers : inflight[c].pc = "done" =>
        /\ Cardinality(ReadsOf(c)) = 1
        /\ Cardinality(WritesOf(c)) <= 1
        /\ inflight[c].err # "" => ~inflight[c].changed

(* C31: a StoreRequestDetails call reads the API server once (not at all   *)
(* for a nil operation) and then writes at most once, a Create or an       *)
(* Update; a call that returns an error (nil operation, failed read,       *)
(* failed or refused Create or Update) has changed no instance.            *)
C31_StoreNoRetry ==
    \A c \in Callers : inflight[c].pc = "done" =>
        /\ inflight[c].req = NoRequest => (inflight[c].calls = <<>> /\ inflight[c].err # "")
        /\ inflight[c].req # NoRequest =>
               /\ Len(inflight[c].calls) \in {1, 2}
               /\ inflight[c].calls[1] = "Get"
               /\ Len(inflight[c].calls) = 2 => inflight[c].calls[2] \in {"Create", "Update"}
        /\ inflight[c].err # "" => ~inflight[c].changed

(* a call whose Update was refused as a conflict and that wrote nothing *)
C31_Witness ==
    \E c \in Callers :
        /\ inflight[c].pc = "done"
        /\ inflight[c].err = "Conflict"
        /\ inflight[c].calls = <<"Get", "Update">>
        /\ ~inflight[c].changed

(* a nil operation is refused before anything is read *)
C31_WitnessNil ==
    \E c \in Callers :
        inflight[c].pc = "done" /\ inflight[c].req = NoRequest /\ inflight[c].calls = <<>>

(* under one caller a store that returns an error leaves the instances as  *)
(* they were                                                               *)
C31_ErrorLeavesEntry ==
    (IsStore /\ last.err # "") => objects = last.pre

----------------------------------------------------------------------------
(* what a MAX_VOLUMES_PER_NODE text says: the integer it writes in base    *)
(* ten, "large" for one beyond every limit, or that it writes none         *)
Denotes ==
    (<<"0">> :> "0") @@ (<<"7">> :> "7") @@ (<<"5", "9">> :> "59") @@ (<<"6", "0">> :> "60") @@
    (<<"-", "1">> :> "negative") @@ (<<"-", "0">> :> "0") @@ (<<"+", "5", "9">> :> "59") @@
    (<<"0", "5", "9">> :> "59") @@ (<<"0", "0", "6", "0">> :> "60") @@
    (<<"1", "0", "0", "0">> :> "large")

IsInfo == last.op = "NodeGetInfo"
MaxText == environ.MAX_VOLUMES_PER_NODE
MaxUnset == MaxText = <<>>
MaxInRange == MaxText \in DOMAIN Denotes /\ Denotes[MaxText] \in {"0", "7", "59"}
MaxSaid ==
    IF MaxUnset THEN 0
    ELSE IF Denotes[MaxText] = "0" THEN 0
    ELSE IF Denotes[MaxText] = "7" THEN 7 ELSE 59

(* C32: every successful NodeGetInfo response carries a MaxVolumesPerNode  *)
(* in 0..59, the value the environment gives or 0 when the variable is     *)
(* unset; a value below 0, above 59 or that is no integer makes the call   *)
(* fail with Internal; an unset node name makes it fail with Internal      *)
(* before the maximum is read.                                             *)
C32_MaxVolumesRange ==
    IsInfo =>
        /\ last.code = "OK" =>
               /\ last.MaxVolumesPerNode \in 0..59
               /\ MaxUnset \/ MaxInRange
               /\ last.MaxVolumesPerNode = MaxSaid
        /\ (environ.NODE_NAME # "" /\ ~MaxUnset /\ ~MaxInRange) => last.code = "Internal"
        /\ environ.NODE_NAME = "" =>
               (last.code = "Internal" /\ last.reads = <<"NODE_NAME">>)

(* a successful response carrying the ceiling itself *)
C32_Witness ==
    IsInfo /\ last.code = "OK" /\ last.MaxVolumesPerNode = 59

(* the value one above the ceiling is refused *)
C32_WitnessAbove ==
    /\ IsInfo
    /\ environ.NODE_NAME # ""
    /\ MaxText = <<"6", "0">>
    /\ last.code = "Internal"

(* the node name is missed before a malformed maximum is *)
C32_WitnessNoName ==
    IsInfo /\ environ.NODE_NAME = "" /\ MaxText = <<"a", "b", "c">> /\ last.code = "Internal"

----------------------------------------------------------------------------
(* the positions of the mounts of the requested device at the staging     *)
(* target before the call                                                  *)
StagedThere == MountsAt(last.preMounts, HostMountsOf(last.preMounts, ReqDev), StagingOf)

RanBindMount == \E i \in 1..Len(last.calls) : last.calls[i].cmd = "BindMount"

(* C33: a mount-capability NodePublishVolume that reaches the check of the *)
(* staging target, on a device that is not mounted at the staging target   *)
(* (its only mount may be at some other path), fails with                  *)
(* FailedPrecondition and runs no bind mount.                              *)
C33_BindOnlyWhenStaged ==
    (PublishMountReady /\ StagedThere = {})
        => (last.code = "FailedPrecondition" /\ ~RanBindMount)

(* The staging directory is there, the device is mounted at another path   *)
(* only, and the empty staging directory is bind-mounted to the target.    *)
C33_WitnessMountedElsewhere ==
    /\ PublishMountReady
    /\ StagedThere = {}
    /\ MountsAt(last.preMounts, HostMountsOf(last.preMounts, ReqDev), OtherPath) # {}
    /\ last.code = "OK"
    /\ RanBindMount

(* publishMountVol refuses with FailedPrecondition, without a bind mount,  *)
(* when its filter returns no mount of the device.                         *)
C33_NoMountNoBind ==
    (PublishMountReady /\ DeviceMounts(last.preMounts, ReqDev) = {})
        => (last.code = "FailedPrecondition" /\ ~RanBindMount)

----------------------------------------------------------------------------
(* the lifecycle call just made met no failing host command *)
NoHostFault == last.osOk /\ last.rmOk

InCycle(step) == last.step = step

(* C34: for a mount-capability volume whose device is attached and has no  *)
(* mount, with the staging directory present and no target path, Stage,    *)
(* Publish, Unpublish and Unstage, called in this order with the same      *)
(* parameters and no failing host command, each return success, and after  *)
(* the Unstage the device has no mount, the target path is gone and the    *)
(* mount table is the one the lifecycle started from.                      *)
C34_LifecycleRoundTrip ==
    /\ (last.step \in 1..4 /\ NoHostFault) => last.code = "OK"
    /\ (InCycle(4) /\ last.code = "OK") =>
           /\ HostMountsOf(mounts, RealDevOf(last.cycle.disk)) = {}
           /\ files[last.cycle.target] = "none"
           /\ mounts = last.startMounts

(* the Unstage that ends a lifecycle on a host that has a mount of its own *)
C34_Witness ==
    /\ InCycle(4)
    /\ last.code = "OK"
    /\ last.startMounts # <<>>
    /\ last.preMounts # last.startMounts
    /\ mounts = last.startMounts

(* half way: the volume is mounted at the staging target and at the target *)
C34_WitnessPublished ==
    /\ InCycle(2)
    /\ last.code = "OK"
    /\ Cardinality(HostMountsOf(mounts, RealDevOf(last.cycle.disk))) = 2
    /\ files[last.cycle.target] = "dir"

----------------------------------------------------------------------------
(* the devices mounted at the staging target before the call whose device  *)
(* node is on the host                                                     *)
StagedDevices ==
    {last.preMounts[i].Device : i \in AtStaging} \cap (blockDevs \ {RootDev})

(* the publish targets the device is mounted at before the call *)
PublishedAt(dev) ==
    {t \in TargetPaths : MountsAt(last.preMounts, HostMountsOf(last.preMounts, dev), t) # {}}

UnstageReady ==
    IsUnstage /\ Cardinality(AtStaging) = 1 /\ last.preFiles[StagingOf] = "dir"

RanUnmount == \E i \in 1..Len(last.calls) : last.calls[i].cmd = "Unmount"

BoundAt(dev) ==
    {t \in TargetPaths : MountsAt(last.preMounts, TokenMounts(last.preMounts, dev), t) # {}}

C35_WitnessRawBlockPublished ==
    /\ UnstageReady
    /\ \E d \in StagedDevices : PublishedAt(d) # {} /\ BoundAt(d) = {}
    /\ last.code = "OK"
    /\ RanUnmount

----------------------------------------------------------------------------
(* the records of a mount table that are not at a path, in table order *)
MountsElsewhere(mnts, path) ==
    LET elsewhere(m) == m.Path # path IN SelectSeq(mnts, elsewhere)

(* the number of records of a mount table at a path *)
CountAt(mnts, path) == Cardinality(MountsAt(mnts, 1..Len(mnts), path))

(* C36: NodeUnpublishVolume for a target removes at most one mount, at the *)
(* target, and at most the path at the target: the mounts at every other   *)
(* path (the staging target, other publish targets of the same or of       *)
(* another volume) and every other path are as they were before the call.  *)
C36_UnpublishFrame ==
    IsUnpublish =>
        /\ MountsElsewhere(mounts, TargetOf) = MountsElsewhere(last.preMounts, TargetOf)
        /\ CountAt(mounts, TargetOf) \in
               {CountAt(last.preMounts, TargetOf), CountAt(last.preMounts, TargetOf) - 1}
        /\ \A p \in AllPaths \ {TargetOf} : files[p] = last.preFiles[p]
        /\ files[TargetOf] \in {last.preFiles[TargetOf], "none"}

(* a volume staged and published to two targets is unpublished from one    *)
(* and stays mounted at the staging target and at the other                *)
C36_Witness ==
    /\ IsUnpublish
    /\ last.code = "OK"
    /\ CountAt(last.preMounts, TargetOf) = 1
    /\ CountAt(mounts, TargetOf) = 0
    /\ files[TargetOf] = "none"
    /\ \E id \in DiskIDs, t \in BlockTargets \ {TargetOf}, g \in StagingPaths :
           /\ MountsAt(mounts, TokenMounts(mounts, RealDevOf(id)), t) # {}
           /\ MountsAt(mounts, TokenMounts(mounts, RealDevOf(id)), g) # {}
           /\ MountsAt(last.preMounts, TokenMounts(last.preMounts, RealDevOf(id)), TargetOf) # {}
           /\ files[t] = "dir"

(* a file share of another volume stays mounted at the other target *)
C36_WitnessOtherVolume ==
    /\ IsUnpublish
    /\ last.code = "OK"
    /\ CountAt(mounts, TargetOf) < CountAt(last.preMounts, TargetOf)
    /\ \E i \in 1..Len(mounts) :
           mounts[i].Device = NfsEndpoint /\ mounts[i].Path \in BlockTargets \ {TargetOf}
    /\ \E i \in 1..Len(last.preMounts) :
           last.preMounts[i].Device # NfsEndpoint /\ last.preMounts[i].Path = TargetOf

----------------------------------------------------------------------------
(* the artifact a Publish branch makes at its target path *)
ArtifactKind == IF last.req.kind = "block" THEN "file" ELSE "dir"

(* the Publish reached the branch of its capability *)
BranchReached ==
    /\ last.op = "NodePublishVolume"
    /\ StagingOf # ""
    /\ last.req.kind \in {"mount", "block"} => (HasDiskID /\ DiskAttached /\ DeviceResolves)

(* the target path held an artifact of the other kind before the call *)
WrongArtifact == last.preFiles[TargetOf] \notin {"none", ArtifactKind}

(* the branch rejected the request *)
Rejected == last.code \in {"FailedPrecondition", "InvalidArgument", "AlreadyExists"}

(* the target holds a mount that is not of the volume of the request *)
ForeignAtTarget ==
    \E i \in AtTarget :
        IF last.req.kind = "file" THEN last.preMounts[i].Device # ShareEndpoint
        ELSE i \notin HostMountsOf(last.preMounts, ReqDev)

(* the attempt before this one was cut short by a failing host command, or *)
(* returned success                                                        *)
RetriedAfterInterrupt ==
    /\ last.op = "NodePublishVolume"
    /\ last.attempt >= 2
    /\ \/ last.prevCode = "OK"
       \/ last.prevCode = "Internal" /\ last.prevCalls # <<>>
    /\ last.req.kind = "mount" => VolumeStaged
    /\ ~ForeignAtTarget

(* this attempt was cut short by a failing host command *)
InterruptedAgain == last.code = "Internal" /\ last.calls # <<>> /\ MountsUnchanged

(* every Publish branch makes its target artifact before it reads the      *)
(* mount table or mounts, accepting one that is there: whatever the branch *)
(* returns, a rejection included, the artifact is at the target path       *)
(* after the call, unless the path held an artifact of the other kind      *)
C37_ArtifactFirst ==
    BranchReached =>
        /\ WrongArtifact => (last.code = "Internal" /\ NoCommand /\ HostUnchanged)
        /\ ~WrongArtifact => files[TargetOf] = ArtifactKind
        /\ (Rejected /\ ~WrongArtifact) => (files[TargetOf] = ArtifactKind /\ MountsUnchanged)
        /\ \A p \in AllPaths \ {TargetOf} : files[p] = last.preFiles[p]

(* C37: every Publish branch creates its target artifact first and accepts *)
(* one that exists; a Publish cut short and retried with the same          *)
(* parameters, the volume staged, returns success with exactly one mount   *)
(* at the target; a rejected Publish leaves the artifact it made.          *)
C37_PublishRetry ==
    /\ C37_ArtifactFirst
    /\ RetriedAfterInterrupt =>
           \/ last.code = "OK" /\ CountAt(mounts, TargetOf) = 1
           \/ InterruptedAgain

(* The retry part for requests that do not ask for "ro" in the mount flags *)
(* with readonly unset, and for block volumes on hosts whose device-node   *)
(* token is devtmpfs.                                                      *)
C37_PublishRetrySound ==
    (/\ RetriedAfterInterrupt
     /\ last.req.ro \/ ~HasOpt([Opts |-> last.req.flags], "ro")
     /\ last.req.kind = "block" => devfs = "devtmpfs")
        => \/ last.code = "OK" /\ CountAt(mounts, TargetOf) = 1
           \/ InterruptedAgain

(* a block Publish repeated on a udev host mounts the device a second time *)
C37_WitnessSecondMount ==
    /\ RetriedAfterInterrupt
    /\ last.req.kind = "block"
    /\ last.code = "OK"
    /\ CountAt(mounts, TargetOf) = 2

(* a read-only block Publish is refused after its target file was made *)
C37_WitnessRejected ==
    /\ BranchReached
    /\ last.code = "InvalidArgument"
    /\ last.preFiles[TargetOf] = "none"
    /\ files[TargetOf] = "file"

(* a Publish whose mount command failed succeeds when it is repeated *)
C37_WitnessRetried ==
    /\ RetriedAfterInterrupt
    /\ last.prevCode = "Internal"
    /\ last.code = "OK"
    /\ CountAt(mounts, TargetOf) = 1
    /\ CountAt(last.preMounts, TargetOf) = 0

----------------------------------------------------------------------------
(* the devices whose node is on the host *)
HostDevices == {[ok |-> TRUE, FullPath |-> d, RealDev |-> d] : d \in blockDevs}

(* the record is the one the lookup at its path reads: the first at it *)
FirstAtItsPath(i) == \A j \in 1..(i - 1) : mounts[j].Path # mounts[i].Path

(* the lookup behind the path of record i resolves to the device *)
LookupResolves(i, sysDevice) ==
    LET dm == getDevFromMount(mounts[i].Path) IN
    dm.found /\ dm.ok /\ dm.dev.RealDev = sysDevice.RealDev

InRange(seq, m) == \E j \in 1..Len(seq) : seq[j] = m

(* C38: whenever getDevFromMount resolves the path of a mount record to a  *)
(* device, getDevMounts returns that record among the mounts of the        *)
(* device; so a block Publish on a device that is bind-mounted at its      *)
(* target runs no command and adds no mount.                               *)
C38_FilterAgreesWithLookup ==
    /\ \A i \in 1..Len(mounts) : \A sysDevice \in HostDevices :
           (FirstAtItsPath(i) /\ LookupResolves(i, sysDevice))
               => InRange(getDevMounts(sysDevice), mounts[i])
    /\ (PublishBlockReady
            /\ MountsAt(last.preMounts, HostMountsOf(last.preMounts, ReqDev), TargetOf) # {})
           => (NoCommand /\ MountsUnchanged)

(* The two helpers agree on hosts whose token for bind-mounted device      *)
(* nodes is devtmpfs.                                                      *)
C38_FilterAgreesDevtmpfs ==
    devfs = "devtmpfs" => C38_FilterAgreesWithLookup

(* a record under the udev token: the lookup resolves it to the device,    *)
(* the filter does not return it                                           *)
C38_WitnessUdev ==
    \E i \in 1..Len(mounts) : \E sysDevice \in HostDevices :
        /\ mounts[i].Device = "udev"
        /\ FirstAtItsPath(i)
        /\ LookupResolves(i, sysDevice)
        /\ ~InRange(getDevMounts(sysDevice), mounts[i])

----------------------------------------------------------------------------
(* the positions of a list that hold the TaskID *)
PositionsOf(list, taskID) == {i \in 1..Len(list) : list[i].TaskID = taskID}

(* C40: in every instance on the API server no two elements of             *)
(* LatestOperationDetails have the same TaskID, the empty TaskID included. *)
C40_TaskIDsDistinct ==
    \A o \in objects :
        LET list == o.Status.LatestOperationDetails IN
        \A i \in 1..Len(list) : PositionsOf(list, list[i].TaskID) = {i}

(* a TaskID stored a second time: it was overwritten where it was, in a    *)
(* list of several elements                                                *)
C40_Witness ==
    /\ UpdateOk
    /\ InList(OldList, StoredTask)
    /\ Len(NewList) >= 3
    /\ Len(NewList) = Len(OldList)
    /\ Cardinality(PositionsOf(NewList, StoredTask)) = 1

(* the empty TaskID is in a list beside other TaskIDs, once *)
C40_WitnessEmptyTask ==
    \E o \in objects :
        /\ Len(o.Status.LatestOperationDetails) >= 2
        /\ Cardinality(PositionsOf(o.Status.LatestOperationDetails, "")) = 1

----------------------------------------------------------------------------
(* C39: with at most one call in flight per volume, calls on two volumes   *)
(* with their own disks, staging paths and target paths interleave at      *)
(* will, one mount-table read, mount or unmount at a time: every call      *)
(* returns the code, and leaves at the paths of its volume the mounts and  *)
(* files, that it would have returned and left had it run at once with     *)
(* nothing in between; every mount or unmount leaves the table that the    *)
(* whole call run at that moment would leave; and while a volume has no    *)
(* call in flight nothing at its paths changes.                            *)
C39_VolumesIndependent ==
    \A v \in Volumes :
        /\ running[v].pc = "done" =>
               /\ running[v].code = running[v].atStart.code
               /\ Own(v, mounts) = running[v].atStart.mounts
               /\ OwnFiles(v, files) = running[v].atStart.files
        /\ running[v].pc = "idle" =>
               /\ Own(v, mounts) = running[v].atStart.mounts
               /\ OwnFiles(v, files) = running[v].atStart.files
        /\ running[v].serial

(* a Publish on volume 1 returns success after volume 2 was mounted        *)
(* between its read of the mount table and its bind mount                  *)
C39_Witness ==
    /\ running[1].pc = "done"
    /\ running[1].op = "NodePublishVolume"
    /\ running[1].code = "OK"
    /\ Len(Own(1, mounts)) = 2
    /\ Len(running[1].mnts) = 1
    /\ Len(mounts) >= 3
    /\ mounts[Len(mounts)].Path = VolumeTarget[1]
    /\ mounts[Len(mounts) - 1].Path \in {VolumeStaging[2], VolumeTarget[2]}
    /\ running[2].pc \notin {"idle", "done"}

====
